---- MODULE Spec2Model ----
(***************************************************************************)
(* Model of the compliance auditor DPDP_Auditor (src/src/dpdp_auditor.py)  *)
(* and of the way the web page (src/web/pages/audit.py) drives it.         *)
(*                                                                         *)
(* The auditor object is the record `auditor`; every rule checker is an    *)
(* operator from an auditor record and the outputs of the collaborators it *)
(* calls (browser driver, HTTP client) to the auditor record it leaves.    *)
(* Python strings are TLA+ strings; `in`, find, lower and replace are      *)
(* computed character by character.                                        *)
(***************************************************************************)
EXTENDS Integers, Sequences, FiniteSets, TLC

VARIABLES
    law,        \* self.law: "DPDP" or "GDPR"
    auditor,    \* the fields of the DPDP_Auditor object (and what it was seen to do)
    pc,         \* the orchestrator's position inside run_audit
    todo,       \* rule keys not evaluated yet (used by the any-order orchestrator)
    env,        \* collaborator outputs fixed for a whole run (any-order orchestrator)
    returned    \* what run_audit returned: None, or the report

vars == <<law, auditor, pc, todo, env, returned>>

None == "<None>"

-----------------------------------------------------------------------------
(* Python string primitives *)

\* needle in hay
Contains(hay, needle) ==
    \E i \in 1..(Len(hay) - Len(needle) + 1) :
        SubSeq(hay, i, i + Len(needle) - 1) = needle

\* the 1-based positions at which needle occurs in hay
Occurrences(hay, needle) ==
    {i \in 1..(Len(hay) - Len(needle) + 1) :
        SubSeq(hay, i, i + Len(needle) - 1) = needle}

\* hay.find(needle), 0-based, -1 when absent
Find(hay, needle) ==
    LET occ == Occurrences(hay, needle)
    IN  IF occ = {} THEN -1
        ELSE (CHOOSE i \in occ : \A j \in occ : i <= j) - 1

\* s.startswith(prefix)
StartsWith(s, prefix) ==
    Len(prefix) <= Len(s) /\ SubSeq(s, 1, Len(prefix)) = prefix

\* the upper-case letters and their lower-case forms
LowerMap ==
    [c \in {"A", "B", "C", "D", "E", "F", "G", "H", "I", "J", "K", "L", "M",
            "N", "O", "P", "Q", "R", "S", "T", "U", "V", "W", "X", "Y", "Z"} |->
        CASE c = "A" -> "a" [] c = "B" -> "b" [] c = "C" -> "c" [] c = "D" -> "d"
          [] c = "E" -> "e" [] c = "F" -> "f" [] c = "G" -> "g" [] c = "H" -> "h"
          [] c = "I" -> "i" [] c = "J" -> "j" [] c = "K" -> "k" [] c = "L" -> "l"
          [] c = "M" -> "m" [] c = "N" -> "n" [] c = "O" -> "o" [] c = "P" -> "p"
          [] c = "Q" -> "q" [] c = "R" -> "r" [] c = "S" -> "s" [] c = "T" -> "t"
          [] c = "U" -> "u" [] c = "V" -> "v" [] c = "W" -> "w" [] c = "X" -> "x"
          [] c = "Y" -> "y" [] c = "Z" -> "z"]

LowerChar(c) == IF c \in DOMAIN LowerMap THEN LowerMap[c] ELSE c

\* s.lower(): character by character (halving keeps the evaluation shallow)
RECURSIVE Lower(_)
Lower(s) ==
    IF s = "" THEN ""
    ELSE IF Len(s) = 1 THEN LowerChar(s)
    ELSE LET h == Len(s) \div 2
         IN  Lower(SubSeq(s, 1, h)) \o Lower(SubSeq(s, h + 1, Len(s)))

\* s.replace(old, new): every non-overlapping occurrence, left to right
RECURSIVE Replace(_, _, _)
Replace(s, old, new) ==
    IF s = "" THEN ""
    ELSE IF StartsWith(s, old)
         THEN new \o Replace(SubSeq(s, Len(old) + 1, Len(s)), old, new)
         ELSE SubSeq(s, 1, 1) \o Replace(SubSeq(s, 2, Len(s)), old, new)

\* s[:n]
Prefix(s, n) == SubSeq(s, 1, IF Len(s) < n THEN Len(s) ELSE n)

\* any(k in text for k in table)
AnyIn(table, text) == \E i \in 1..Len(table) : Contains(text, table[i])

\* [k for k in table if k in text]
\* Variant: the scan of the table stops at the first keyword found
RECURSIVE FoundIn_first(_, _)
FoundIn_first(table, text) ==
    IF table = <<>> THEN <<>>
    ELSE IF Contains(text, Head(table)) THEN <<Head(table)>>
    ELSE FoundIn_first(Tail(table), text)

RECURSIVE FoundIn(_, _)
FoundIn(table, text) ==
    IF table = <<>> THEN <<>>
    ELSE (IF Contains(text, Head(table)) THEN <<Head(table)>> ELSE <<>>)
         \o FoundIn(Tail(table), text)

-----------------------------------------------------------------------------
(* Construction: DPDP_Auditor.__init__ *)

_normalize_url(url) ==
    IF StartsWith(url, "http://") \/ StartsWith(url, "https://")
    THEN url
    ELSE "https://" \o url

\* urlparse(url).scheme of a normalised url
Scheme(url) == SubSeq(url, 1, Find(url, "://"))

\* urlparse(url).netloc of a normalised url: between "://" and the next "/"
Netloc(url) ==
    LET rest == SubSeq(url, Find(url, "://") + 4, Len(url))
    IN  IF Contains(rest, "/") THEN SubSeq(rest, 1, Find(rest, "/")) ELSE rest

DpdpKeys == <<"module_1", "module_2", "module_3", "module_4",
              "module_5", "module_6", "module_7">>
GdprKeys == <<"gdpr_1", "gdpr_2", "gdpr_3", "gdpr_4", "gdpr_5">>

ProfileKeys(l) == IF l = "GDPR" THEN GdprKeys ELSE DpdpKeys

KeySet(l) == {ProfileKeys(l)[i] : i \in 1..Len(ProfileKeys(l))}

\* The object after __init__(url, law); `policy` is the privacy-policy URL the
\* web page injects before run_audit (None when it injects nothing).
NewAuditor(url, l, policy) ==
    [ url                 |-> _normalize_url(url),
      domain              |-> Netloc(_normalize_url(url)),
      driver              |-> None,
      privacy_policy_url  |-> policy,
      privacy_policy_text |-> None,
      audit_report        |-> [k \in KeySet(l) |-> <<>>],
      \* what the object was seen to do
      page                |-> None,   \* what the driver has loaded
      invoked             |-> <<>>,   \* checkers entered, in order: <<rule, policy URL then>>
      raised              |-> <<>>,   \* exceptions that reached a checker's handler
      failed              |-> <<>>,   \* <<rule, exc, detail>>: collaborator calls that raised in a checker's try block
      seen                |-> <<>>,   \* <<rule, text>>: the policy text each rule obtained
      appended            |-> <<>>,   \* <<key, finding>>: every append to the report, in order
      fetches             |-> <<>>,   \* policy fetch attempts: <<rule, "browser"|"http", url>>
      acquisitions        |-> 0,      \* runs of _get_policy_text's acquisition sequence
      matched             |-> {},     \* rules that matched keywords against the text
      quits               |-> 0,      \* calls of driver.quit()
      fatal               |-> None ]  \* the exception run_audit's own handler caught

\* self.audit_report[key].append(finding)
Append_(a, key, finding) ==
    [a EXCEPT !.audit_report[key] = Append(@, finding),
              !.appended = Append(@, <<key, finding>>)]

\* a collaborator call that returned `v` / that raised
Ok(v) == [ok |-> TRUE, value |-> v]
Raise(kind, detail) == [ok |-> FALSE, exc |-> kind, detail |-> detail]

Enter(a, key) == [a EXCEPT !.invoked = Append(@, <<key, a.privacy_policy_url>>)]

\* Variant: a handler that logs the exception and appends nothing
Handler_silent(a, key, prefix, e) ==
    [a EXCEPT !.raised = Append(@, <<key, e.exc, e.detail>>)]

\* Variant: a handler whose message leaves out str(e)
Handler_no_detail(a, key, prefix, e) ==
    Append_([a EXCEPT !.raised = Append(@, <<key, e.exc, e.detail>>)], key,
            [status |-> "ERROR", message |-> prefix])

\* an `except ... as e:` handler of checker `key` that appends an ERROR finding
Handler(a, key, prefix, e) ==
    Append_([a EXCEPT !.raised = Append(@, <<key, e.exc, e.detail>>)], key,
            [status |-> "ERROR", message |-> prefix \o e.detail])

-----------------------------------------------------------------------------
(* Consent checkers: module_1_consent_audit and _check_gdpr_pillar_1_consent *)

essential_keywords == <<"session", "id", "csrf", "auth", "token", "secure", "httponly">>

tracker_signatures ==
    <<"_ga", "_gid", "_fbp", "_fbc", "_uetsid", "_uetvid", "adsid", "doubleclick",
      "rubicon", "criteo", "amazon_aid", "ttd_uuid", "dpm", "mage", "c3", "kenshoo",
      "affectv", "bluekai">>

gdpr_essential_keywords ==
    <<"session", "id", "csrf", "auth", "token", "secure", "httponly",
      "language", "preference">>

\* Variant: the GDPR table knows the Google Analytics cookies only
gdpr_tracker_signatures_google_only == <<"_ga", "_gid">>

gdpr_tracker_signatures ==
    <<"_ga", "_gid", "_fbp", "_fbc", "_uetsid", "_uetvid", "adsid", "doubleclick",
      "rubicon", "criteo", "amazon_aid", "ttd_uuid", "dpm", "c3", "kenshoo",
      "affectv", "bluekai">>

\* is_essential = any(keyword in cookie_name for keyword in essential_keywords)
is_essential(cookie, essential) == AnyIn(essential, Lower(cookie.name))

\* Variant: only a leading "www." is taken off the cookie's domain
is_external_domain_leading_www(cookie, domain) ==
    LET cookie_domain == Lower(cookie.domain)
        stripped == IF StartsWith(cookie_domain, "www.")
                    THEN SubSeq(cookie_domain, 5, Len(cookie_domain))
                    ELSE cookie_domain
    IN  ~ (\/ Contains(cookie_domain, domain)
           \/ Contains(domain, stripped))

\* is_external_domain =
\*   not (self.domain in cookie_domain or cookie_domain.replace('www.', '') in self.domain)
is_external_domain(cookie, domain) ==
    LET cookie_domain == Lower(cookie.domain)
    IN  ~ (\/ Contains(cookie_domain, domain)
           \/ Contains(domain, Replace(cookie_domain, "www.", "")))

\* is_known_tracker = any(sig in cookie_name for sig in tracker_signatures)
is_known_tracker(cookie, signatures) == AnyIn(signatures, Lower(cookie.name))

\* Variant: a tracker signature flags a cookie whatever else holds
Flagged_any_tracker(cookie, domain, essential, signatures) ==
    \/ ~ is_essential(cookie, essential) /\ is_external_domain(cookie, domain)
    \/ is_known_tracker(cookie, signatures)

\* the condition of the `if` that flags a cookie
Flagged(cookie, domain, essential, signatures) ==
    /\ ~ is_essential(cookie, essential)
    /\ (is_external_domain(cookie, domain) \/ is_known_tracker(cookie, signatures))

\* tracker_type = 'Known Tracker' if is_known_tracker else 'External Domain'
tracker_type(cookie, signatures) ==
    IF is_known_tracker(cookie, signatures) THEN "Known Tracker" ELSE "External Domain"

\* Variant: the loop leaves at the first cookie it flags
RECURSIVE third_party_trackers_first(_, _, _, _)
third_party_trackers_first(cookies, domain, essential, signatures) ==
    IF cookies = <<>> THEN <<>>
    ELSE LET cookie == Head(cookies)
         IN  IF Flagged(cookie, domain, essential, signatures)
             THEN << [name   |-> cookie.name,
                      domain |-> Lower(cookie.domain),
                      type   |-> tracker_type(cookie, signatures)] >>
             ELSE third_party_trackers_first(Tail(cookies), domain, essential, signatures)

\* the `for cookie in all_cookies` loop: third_party_trackers
RECURSIVE third_party_trackers(_, _, _, _)
third_party_trackers(cookies, domain, essential, signatures) ==
    IF cookies = <<>> THEN <<>>
    ELSE LET cookie == Head(cookies)
         IN  (IF Flagged(cookie, domain, essential, signatures)
              THEN << [name   |-> cookie.name,
                       domain |-> Lower(cookie.domain),
                       type   |-> tracker_type(cookie, signatures)] >>
              ELSE <<>>)
             \o third_party_trackers(Tail(cookies), domain, essential, signatures)

\* The body shared by the two consent checkers. nav is the outcome of
\* driver.get(self.url), ck the outcome of driver.get_cookies().
ConsentAudit(a0, key, nav, ck, essential, signatures, msgs) ==
    LET a == Enter(a0, key)
        handle(b, e) ==
            IF e.exc = "WebDriverException"
            THEN Handler(b, key, "Failed to audit consent: ", e)
            ELSE Handler(b, key, "Consent audit failed: ", e)
    IN  IF ~ nav.ok THEN handle(a, nav)
        ELSE LET b == [a EXCEPT !.page = "target"]
             IN  IF ~ ck.ok THEN handle(b, ck)
                 ELSE IF ck.value = <<>>
                 THEN Append_(b, key, [status |-> "PASS", message |-> msgs.none])
                 ELSE LET t == third_party_trackers(ck.value, b.domain,
                                                    essential, signatures)
                      IN  IF t # <<>>
                          THEN Append_(b, key,
                                 [status  |-> "VIOLATION",
                                  message |-> msgs.law \o
                                      ": Data processed without consent - "
                                      \o ToString(Len(t))
                                      \o " unauthorized trackers found",
                                  details |-> t] @@ msgs.extra)
                          ELSE Append_(b, key,
                                 [status |-> "PASS", message |-> msgs.clean])

module_1_consent_audit(a, nav, ck) ==
    ConsentAudit(a, "module_1", nav, ck, essential_keywords, tracker_signatures,
        [ law   |-> "Sec 6(1)",
          none  |-> "Sec 6(1): No tracking cookies found on initial load",
          clean |-> "Sec 6(1): No unauthorized tracking cookies found before consent",
          extra |-> <<>> ])

_check_gdpr_pillar_1_consent(a, nav, ck) ==
    ConsentAudit(a, "gdpr_1", nav, ck, gdpr_essential_keywords, gdpr_tracker_signatures,
        [ law   |-> "Article 6",
          none  |-> "Article 6: No tracking cookies found before consent - COMPLIANT",
          clean |-> "Article 6: No unauthorized tracking cookies found before consent",
          extra |-> [severity |-> "CRITICAL"] ])

-----------------------------------------------------------------------------
(* module_2_notice_audit *)

privacy_keywords ==
    <<"privacy", "policy", "notice", "data protection", "personal data",
      "privacy statement", "gdpr", "cookie", "data policy", "legal", "terms",
      "terms and conditions", "data notice", "information governance",
      "records management">>

\* the URL a matching link's href resolves to
ResolveHref(url, href) ==
    LET base_url == Scheme(url) \o "://" \o Netloc(url)
    IN  IF StartsWith(href, "http") THEN href
        ELSE IF StartsWith(href, "/") THEN base_url \o href
        ELSE base_url \o "/" \o href

\* the `for link in links` loop: the URL of the first link whose text holds a
\* privacy keyword and whose href is not empty, None when there is none. A link
\* whose element raises (stale) is skipped by the inner handler.
RECURSIVE FirstPrivacyLink(_, _)
FirstPrivacyLink(links, url) ==
    IF links = <<>> THEN None
    ELSE LET link == Head(links)
         IN  IF /\ ~ link.stale
                /\ AnyIn(privacy_keywords, Lower(link.text))
                /\ link.href # None /\ link.href # ""
             THEN ResolveHref(url, link.href)
             ELSE FirstPrivacyLink(Tail(links), url)

\* What driver.page_source / find_elements give for the page the driver holds:
\* nothing was loaded (None) gives a page without links.
PageLinks(a, site) == IF a.page = None THEN Ok(<<>>) ELSE site[a.page]

module_2_notice_audit(a0, site) ==
    LET a  == Enter(a0, "module_2")
        lk == PageLinks(a, site)
    IN  IF ~ lk.ok THEN Handler(a, "module_2", "Notice audit failed: ", lk)
        ELSE LET found == FirstPrivacyLink(lk.value, a.url)
             IN  IF found # None
                 THEN Append_([a EXCEPT !.privacy_policy_url = found], "module_2",
                        [status  |-> "PASS",
                         message |-> "Sec 5(1): Privacy Notice link found",
                         url     |-> found])
                 ELSE Append_(a, "module_2",
                        [status  |-> "VIOLATION",
                         message |-> "Sec 5(1): No Privacy Notice link found"])

-----------------------------------------------------------------------------
(* module_3_security_safeguards *)

required_headers ==
    << <<"Strict-Transport-Security", "HSTS">>,
       <<"X-Frame-Options", "Clickjacking Protection">>,
       <<"X-Content-Type-Options", "MIME Type Sniffing Protection">> >>

\* Variant: the lookup compares header names as they are spelled
HeaderKey_exact(headers, name) ==
    IF name \in DOMAIN headers THEN name ELSE None

\* header_name in response_headers. response.headers is a requests
\* CaseInsensitiveDict: the lookup ignores case.
HeaderKey(headers, name) ==
    IF \E h \in DOMAIN headers : Lower(h) = Lower(name)
    THEN CHOOSE h \in DOMAIN headers : Lower(h) = Lower(name)
    ELSE None

RECURSIVE missing_headers(_, _)
missing_headers(required, headers) ==
    IF required = <<>> THEN <<>>
    ELSE (IF HeaderKey(headers, Head(required)[1]) = None
          THEN <<Head(required)>> ELSE <<>>)
         \o missing_headers(Tail(required), headers)

RECURSIVE present_headers(_, _)
present_headers(required, headers) ==
    IF required = <<>> THEN <<>>
    ELSE LET name == Head(required)[1]
             h    == HeaderKey(headers, name)
         IN  (IF h # None
              THEN <<name \o ": " \o Prefix(headers[h], 50)>> ELSE <<>>)
             \o present_headers(Tail(required), headers)

\* Variant: a failed request is read as a response without headers
module_3_failure_as_no_headers(a0, resp) ==
    LET a == Enter(a0, "module_3")
        headers == IF resp.ok THEN resp.value.headers ELSE <<>>
        missing == missing_headers(required_headers, headers)
        present == present_headers(required_headers, headers)
    IN  IF missing # <<>>
        THEN Append_(a, "module_3",
               [status  |-> "RISK",
                message |-> "Sec 8(5): Missing " \o ToString(Len(missing))
                            \o " security headers",
                missing_headers |-> missing,
                present_headers |-> present])
        ELSE Append_(a, "module_3",
               [status  |-> "PASS",
                message |-> "Sec 8(5): All required security headers present",
                headers |-> present])

\* resp is the outcome of requests.get(self.url, ...)
module_3_security_safeguards(a0, resp) ==
    LET a == Enter(a0, "module_3")
    IN  IF ~ resp.ok
        THEN IF resp.exc = "RequestException"
             THEN Handler(a, "module_3", "Could not fetch security headers: ", resp)
             ELSE Handler(a, "module_3", "Security audit failed: ", resp)
        ELSE LET missing == missing_headers(required_headers, resp.value.headers)
                 present == present_headers(required_headers, resp.value.headers)
             IN  IF missing # <<>>
                 THEN Append_(a, "module_3",
                        [status  |-> "RISK",
                         message |-> "Sec 8(5): Missing " \o ToString(Len(missing))
                                     \o " security headers",
                         missing_headers |-> missing,
                         present_headers |-> present])
                 ELSE Append_(a, "module_3",
                        [status  |-> "PASS",
                         message |-> "Sec 8(5): All required security headers present",
                         headers |-> present])

-----------------------------------------------------------------------------
(* _get_policy_text: the cached, two-strategy fetch of the policy document *)

\* Python truthiness of self.privacy_policy_text / self.privacy_policy_url
Truthy(v) == v # None /\ v # ""

\* Variant: the fetch caches the lower-cased text and returns the raw one
_get_policy_text_raw_first(a, rule, f) ==
    IF Truthy(a.privacy_policy_text)
    THEN [a |-> a, text |-> a.privacy_policy_text]
    ELSE IF ~ Truthy(a.privacy_policy_url)
    THEN [a |-> a, text |-> ""]
    ELSE LET url == a.privacy_policy_url
             b == [a EXCEPT !.acquisitions = @ + 1,
                            !.fetches = Append(@, <<rule, "browser", url>>)]
         IN  IF f.browser.ok
             THEN [a |-> [b EXCEPT !.page = "policy",
                                   !.privacy_policy_text = Lower(f.browser.value)],
                   text |-> f.browser.value]
             ELSE LET c == [b EXCEPT !.fetches = Append(@, <<rule, "http", url>>)]
                  IN  IF f.http.ok /\ f.http.value.status_code = 200
                      THEN [a |-> [c EXCEPT !.privacy_policy_text = Lower(f.http.value.text)],
                            text |-> f.http.value.text]
                      ELSE [a |-> c, text |-> ""]

\* Variant: the fetch without its guard on self.privacy_policy_url
_get_policy_text_unguarded(a, rule, f) ==
    IF Truthy(a.privacy_policy_text)
    THEN [a |-> a, text |-> a.privacy_policy_text]
    ELSE LET url == a.privacy_policy_url
             b == [a EXCEPT !.acquisitions = @ + 1,
                            !.fetches = Append(@, <<rule, "browser", url>>)]
         IN  IF f.browser.ok
             THEN LET t == Lower(f.browser.value)
                  IN  [a |-> [b EXCEPT !.page = "policy", !.privacy_policy_text = t],
                       text |-> t]
             ELSE LET c == [b EXCEPT !.fetches = Append(@, <<rule, "http", url>>)]
                  IN  IF f.http.ok /\ f.http.value.status_code = 200
                      THEN LET t == Lower(f.http.value.text)
                           IN  [a |-> [c EXCEPT !.privacy_policy_text = t], text |-> t]
                      ELSE [a |-> c, text |-> ""]

\* Variant: the HTTP fallback takes the body of any response, whatever its status
_get_policy_text_any_status(a, rule, f) ==
    IF Truthy(a.privacy_policy_text)
    THEN [a |-> a, text |-> a.privacy_policy_text]
    ELSE IF ~ Truthy(a.privacy_policy_url)
    THEN [a |-> a, text |-> ""]
    ELSE LET url == a.privacy_policy_url
             b == [a EXCEPT !.acquisitions = @ + 1,
                            !.fetches = Append(@, <<rule, "browser", url>>)]
         IN  IF f.browser.ok
             THEN LET t == Lower(f.browser.value)
                  IN  [a |-> [b EXCEPT !.page = "policy", !.privacy_policy_text = t],
                       text |-> t]
             ELSE LET c == [b EXCEPT !.fetches = Append(@, <<rule, "http", url>>)]
                  IN  IF f.http.ok
                      THEN LET t == Lower(f.http.value.text)
                           IN  [a |-> [c EXCEPT !.privacy_policy_text = t], text |-> t]
                      ELSE [a |-> c, text |-> ""]

\* f.browser is the outcome of driver.get + find_element(body).text, f.http the
\* outcome of requests.get on the policy URL. Gives the auditor left behind and
\* the text returned to the calling rule.
_get_policy_text(a, rule, f) ==
    IF Truthy(a.privacy_policy_text)
    THEN [a |-> a, text |-> a.privacy_policy_text]
    ELSE IF ~ Truthy(a.privacy_policy_url)
    THEN [a |-> a, text |-> ""]
    ELSE LET url == a.privacy_policy_url
             b == [a EXCEPT !.acquisitions = @ + 1,
                            !.fetches = Append(@, <<rule, "browser", url>>)]
         IN  IF f.browser.ok
             THEN LET t == Lower(f.browser.value)
                  IN  [a |-> [b EXCEPT !.page = "policy", !.privacy_policy_text = t],
                       text |-> t]
             ELSE LET c == [b EXCEPT !.fetches = Append(@, <<rule, "http", url>>)]
                  IN  IF f.http.ok /\ f.http.value.status_code = 200
                      THEN LET t == Lower(f.http.value.text)
                           IN  [a |-> [c EXCEPT !.privacy_policy_text = t], text |-> t]
                      ELSE [a |-> c, text |-> ""]

\* policy_text = self._get_policy_text() inside rule `rule`
GetText(a, rule, f) ==
    LET r == _get_policy_text(a, rule, f)
    IN  [a |-> [r.a EXCEPT !.seen = Append(@, <<rule, r.text>>)], text |-> r.text]

-----------------------------------------------------------------------------
(* module_4_grievance_redressal and _is_email_near_keyword *)

DefaultDistance == 200

\* a character of the class [\w\.-]
EmailChar(c) ==
    Contains("abcdefghijklmnopqrstuvwxyzABCDEFGHIJKLMNOPQRSTUVWXYZ0123456789_.-", c)

Char(text, i) == SubSeq(text, i, i)

\* re.findall(r'[\w\.-]+@[\w\.-]+', text) from position `from` on: leftmost,
\* greedy, non-overlapping matches in text order
RECURSIVE FindEmails(_, _)
FindEmails(text, from) ==
    LET ats == {k \in (from + 1)..(Len(text) - 1) :
                  /\ Char(text, k) = "@"
                  /\ EmailChar(Char(text, k - 1))
                  /\ EmailChar(Char(text, k + 1))}
    IN  IF ats = {} THEN <<>>
        ELSE LET k == CHOOSE x \in ats : \A y \in ats : x <= y
                 s == CHOOSE x \in from..(k - 1) :
                        /\ \A j \in x..(k - 1) : EmailChar(Char(text, j))
                        /\ \A y \in from..(x - 1) :
                              \E j \in y..(k - 1) : ~ EmailChar(Char(text, j))
                 e == CHOOSE x \in (k + 1)..Len(text) :
                        /\ \A j \in (k + 1)..x : EmailChar(Char(text, j))
                        /\ (x = Len(text) \/ ~ EmailChar(Char(text, x + 1)))
             IN  <<SubSeq(text, s, e)>> \o FindEmails(text, e + 1)

\* set(emails)
EmailSet(text) ==
    LET found == FindEmails(text, 1) IN {found[i] : i \in 1..Len(found)}

\* the orders list(set(emails)) may come out in
Orders(S) ==
    {o \in [1..Cardinality(S) -> S] : \A i, j \in DOMAIN o : o[i] = o[j] => i = j}

\* Variant: any occurrence of the email near any occurrence of the keyword counts
_is_email_near_keyword_any(page_text, email, keyword, distance) ==
    \E i \in 1..Len(page_text), j \in 1..Len(page_text) :
        /\ i + Len(email) - 1 <= Len(page_text)
        /\ j + Len(keyword) - 1 <= Len(page_text)
        /\ SubSeq(page_text, i, i + Len(email) - 1) = email
        /\ SubSeq(page_text, j, j + Len(keyword) - 1) = keyword
        /\ (IF i >= j THEN i - j ELSE j - i) <= distance

_is_email_near_keyword(page_text, email, keyword, distance) ==
    LET email_pos   == Find(page_text, email)
        keyword_pos == Find(page_text, keyword)
    IN  IF email_pos = -1 \/ keyword_pos = -1 THEN FALSE
        ELSE (IF email_pos >= keyword_pos THEN email_pos - keyword_pos
              ELSE keyword_pos - email_pos) <= distance

grievance_keywords ==
    <<"grievance", "officer", "dpo", "contact", "support", "complaint", "redressal">>

\* Variant: a grievance keyword anywhere in the text accepts the email
IsGrievanceEmail_anywhere(text, email) ==
    \E i \in 1..Len(grievance_keywords) : Contains(text, grievance_keywords[i])

\* the inner `for keyword in grievance_keywords` loop with its break
IsGrievanceEmail(text, email) ==
    \E i \in 1..Len(grievance_keywords) :
        /\ Contains(text, grievance_keywords[i])
        /\ _is_email_near_keyword(text, Lower(email), grievance_keywords[i],
                                  DefaultDistance)

\* the outer `for email in emails` loop: grievance_emails
RECURSIVE grievance_emails(_, _)
grievance_emails(text, emails) ==
    IF emails = <<>> THEN <<>>
    ELSE (IF IsGrievanceEmail(text, Head(emails)) THEN <<Head(emails)>> ELSE <<>>)
         \o grievance_emails(text, Tail(emails))

\* f is the fetch outcome, order the order list(set(emails)) comes out in
module_4_grievance_redressal(a0, f, order) ==
    LET a == Enter(a0, "module_4")
        r == GetText(a, "module_4", f)
    IN  IF ~ Truthy(r.text)
        THEN Append_(r.a, "module_4",
               [status  |-> "SKIP",
                message |-> "Sec 8(9): Skipped - Could not fetch Policy text"])
        ELSE LET b      == [r.a EXCEPT !.matched = @ \cup {"module_4"}]
                 emails == order
                 accepted == grievance_emails(r.text, emails)
             IN  IF accepted # <<>>
                 THEN Append_(b, "module_4",
                        [status  |-> "PASS",
                         message |-> "Sec 8(9): Grievance Officer contact details found",
                         emails  |-> accepted])
                 ELSE IF emails # <<>>
                 THEN Append_(b, "module_4",
                        [status  |-> "RISK",
                         message |-> "Sec 8(9): Email addresses found but grievance context unclear",
                         emails  |-> Prefix(emails, 5)])
                 ELSE Append_(b, "module_4",
                        [status  |-> "VIOLATION",
                         message |-> "Sec 8(9): No Grievance Officer details found"])

\* the text module_4 will read, given the fetch outcome
TextSeenBy(a, f) == _get_policy_text(a, "module_4", f).text

-----------------------------------------------------------------------------
(* The policy-text rules: modules 5-7 and GDPR pillars 2-5 *)

breach_keywords ==
    <<"breach", "notification", "72 hours", "incident", "data breach",
      "unauthorized access", "notify", "disclosure", "security incident">>

children_keywords ==
    <<"child", "minor", "parent", "guardian", "age verification",
      "parental consent", "verifiable consent", "under 18", "juvenile">>

retention_keywords ==
    <<"retention", "delete", "erase", "removal", "1 year", "one year",
      "log retention", "data deletion", "purge", "destroy">>

dpo_keywords ==
    <<"data protection officer", "dpo", "appointed dpo", "designate", "responsible">>

rights ==
    << <<"Right of Access (Art 15)", <<"access", "right of access", "access to data">> >>,
       <<"Right to Rectification (Art 16)",
         <<"rectif", "correct", "amend", "update information">> >>,
       <<"Right to Erasure (Art 17)",
         <<"right to be forgotten", "erasure", "delete", "erase", "removal">> >>,
       <<"Right to Restriction (Art 18)",
         <<"restrict", "restriction of processing", "suspend">> >>,
       <<"Right to Portability (Art 20)",
         <<"data portab", "portable", "receive data", "machine-readable">> >>,
       <<"Right to Object (Art 21)",
         <<"right to object", "objection", "reject processing">> >> >>

complaint_keywords ==
    <<"supervisory authority", "lodge a complaint", "ico", "cnil",
      "data protection authority", "complaint", "authorities", "gdpr", "regulation">>

transfer_keywords ==
    <<"transfer", "transfer outside", "international", "outside eu", "outside eea",
      "third country", "outside europe">>

safeguard_keywords ==
    <<"standard contractual clause", "scc", "adequacy decision",
      "binding corporate rule", "bcr", "approved mechanism", "model clause",
      "standard clause">>

\* module_5/6/7: PASS with the keywords found, else VIOLATION
AnyMatchFinding(table, text, pass_msg, fail_msg) ==
    LET found_keywords == FoundIn(table, text)
    IN  IF found_keywords # <<>>
        THEN [status |-> "PASS", message |-> pass_msg, keywords |-> found_keywords]
        ELSE [status |-> "VIOLATION", message |-> fail_msg]

\* Variant: a missing DPO is given the severity of the complaints rule
GovernanceFinding_violation(text) ==
    IF AnyIn(dpo_keywords, text)
    THEN [status  |-> "PASS",
          message |-> "Article 37: Data Protection Officer (DPO) mentioned in policy"]
    ELSE [status  |-> "VIOLATION",
          message |-> "Article 37: Data Protection Officer (DPO) not mentioned",
          score_deduction |-> -20,
          recommendation  |-> "Clarify DPO appointment or responsibility delegation"]

\* pillar 2
GovernanceFinding(text) ==
    IF AnyIn(dpo_keywords, text)
    THEN [status  |-> "PASS",
          message |-> "Article 37: Data Protection Officer (DPO) mentioned in policy"]
    ELSE [status  |-> "RISK",
          message |-> "Article 37: Data Protection Officer (DPO) not mentioned",
          score_deduction |-> -10,
          recommendation  |-> "Clarify DPO appointment or responsibility delegation"]

RECURSIVE found_rights(_, _)
found_rights(table, text) ==
    IF table = <<>> THEN <<>>
    ELSE (IF AnyIn(Head(table)[2], text) THEN <<Head(table)[1]>> ELSE <<>>)
         \o found_rights(Tail(table), text)

RECURSIVE missing_rights(_, _)
missing_rights(table, text) ==
    IF table = <<>> THEN <<>>
    ELSE (IF AnyIn(Head(table)[2], text) THEN <<>> ELSE <<Head(table)[1]>>)
         \o missing_rights(Tail(table), text)

\* ", ".join(names)
RECURSIVE Join(_)
Join(names) ==
    IF names = <<>> THEN ""
    ELSE IF Len(names) = 1 THEN names[1]
    ELSE names[1] \o ", " \o Join(Tail(names))

\* Variant: VIOLATION only from four missing rights on
RightsFinding_four(text) ==
    LET found   == found_rights(rights, text)
        missing == missing_rights(rights, text)
        score_deduction == Len(missing) * (-5)
    IN  IF missing # <<>>
        THEN [status  |-> IF Len(missing) > 3 THEN "VIOLATION" ELSE "RISK",
              message |-> "Articles 15-21: " \o ToString(Len(missing))
                          \o " data subject rights not clearly documented",
              found_rights    |-> found,
              missing_rights  |-> missing,
              score_deduction |-> score_deduction,
              recommendation  |-> "Add missing rights documentation: " \o Join(missing)]
        ELSE [status  |-> "PASS",
              message |-> "Articles 15-21: All 6 data subject rights clearly documented",
              found_rights |-> found]

\* pillar 3
RightsFinding(text) ==
    LET found   == found_rights(rights, text)
        missing == missing_rights(rights, text)
        score_deduction == Len(missing) * (-5)
    IN  IF missing # <<>>
        THEN [status  |-> IF Len(missing) >= 3 THEN "VIOLATION" ELSE "RISK",
              message |-> "Articles 15-21: " \o ToString(Len(missing))
                          \o " data subject rights not clearly documented",
              found_rights    |-> found,
              missing_rights  |-> missing,
              score_deduction |-> score_deduction,
              recommendation  |-> "Add missing rights documentation: " \o Join(missing)]
        ELSE [status  |-> "PASS",
              message |-> "Articles 15-21: All 6 data subject rights clearly documented",
              found_rights |-> found]

\* pillar 4
TransparencyFinding(text) ==
    LET found_keywords == FoundIn(complaint_keywords, text)
    IN  IF found_keywords # <<>>
        THEN [status  |-> "PASS",
              message |-> "Article 77: Complaints procedure with Supervisory Authority documented",
              keywords |-> found_keywords]
        ELSE [status  |-> "VIOLATION",
              message |-> "Article 77: No reference to complaint procedures or Supervisory Authority",
              score_deduction |-> -20,
              recommendation  |-> "Include information about complaint rights and relevant authority contact"]

\* Variant: without a safeguard keyword the finding is RISK, transfer or not
TransfersFinding_always(text) ==
    LET has_safeguards    == AnyIn(safeguard_keywords, text)
        found_safeguards  == FoundIn(safeguard_keywords, text)
    IN  IF has_safeguards
        THEN [status  |-> "PASS",
              message |-> "Articles 44-46: International transfers with documented safeguards",
              safeguards |-> found_safeguards]
        ELSE [status  |-> "RISK",
              message |-> "Articles 44-46: International transfers mentioned but safeguards not documented",
              score_deduction |-> -15,
              recommendation  |-> "Document transfer mechanisms (SCCs, Adequacy Decision, BCRs)"]

\* pillar 5
TransfersFinding(text) ==
    LET mentions_transfer == AnyIn(transfer_keywords, text)
        has_safeguards    == AnyIn(safeguard_keywords, text)
        found_safeguards  == FoundIn(safeguard_keywords, text)
    IN  IF ~ mentions_transfer
        THEN [status  |-> "PASS",
              message |-> "Articles 44-46: No international transfers indicated (or local processing only)"]
        ELSE IF mentions_transfer /\ has_safeguards
        THEN [status  |-> "PASS",
              message |-> "Articles 44-46: International transfers with documented safeguards",
              safeguards |-> found_safeguards]
        ELSE [status  |-> "RISK",
              message |-> "Articles 44-46: International transfers mentioned but safeguards not documented",
              score_deduction |-> -15,
              recommendation  |-> "Document transfer mechanisms (SCCs, Adequacy Decision, BCRs)"]

\* the legal-basis label each policy-text rule cites
RuleLabel(key) ==
    CASE key = "module_5" -> "Rule 7"
      [] key = "module_6" -> "Section 9 & Rule 10"
      [] key = "module_7" -> "Rule 8"
      [] key = "gdpr_2"   -> "Article 37"
      [] key = "gdpr_3"   -> "Articles 15-21"
      [] key = "gdpr_4"   -> "Article 77"
      [] key = "gdpr_5"   -> "Articles 44-46"

\* the finding a rule appends once it holds non-empty policy text
Verdict(key, text) ==
    CASE key = "module_5" ->
           AnyMatchFinding(breach_keywords, text,
               "Rule 7: Breach notification policy found",
               "Rule 7: No breach notification policy mentioned")
      [] key = "module_6" ->
           AnyMatchFinding(children_keywords, text,
               "Section 9 & Rule 10: Children's data protection policy found",
               "Section 9 & Rule 10: No children's data protection policy mentioned")
      [] key = "module_7" ->
           AnyMatchFinding(retention_keywords, text,
               "Rule 8: Data retention policy documented",
               "Rule 8: No data retention/deletion policy mentioned")
      [] key = "gdpr_2" -> GovernanceFinding(text)
      [] key = "gdpr_3" -> RightsFinding(text)
      [] key = "gdpr_4" -> TransparencyFinding(text)
      [] key = "gdpr_5" -> TransfersFinding(text)

\* the finding of a rule that finds no policy URL
SkipFinding(key) ==
    [status  |-> "SKIP",
     message |-> RuleLabel(key) \o
         (IF key \in {"module_5", "module_6", "module_7"}
          THEN ": Skipped - No Privacy Policy URL found"
          ELSE ": Skipped - Privacy Policy not accessible")]

\* the finding of a rule whose fetch gave no text
NoTextFinding(key) ==
    [status  |-> "ERROR",
     message |-> RuleLabel(key) \o ": Could not fetch Privacy Policy for analysis"]

\* Variant: the frame without its guard on empty policy text
PolicyRule_unguarded_text(a0, key, f) ==
    LET a == Enter(a0, key)
    IN  IF ~ Truthy(a.privacy_policy_url)
        THEN Append_(a, key, SkipFinding(key))
        ELSE LET r == GetText(a, key, f)
             IN  Append_([r.a EXCEPT !.matched = @ \cup {key}], key,
                         Verdict(key, r.text))

\* The frame the seven rules share: the URL guard, the fetch, the empty-text
\* guard, then the rule's keyword matching.
PolicyRule(a0, key, f) ==
    LET a == Enter(a0, key)
    IN  IF ~ Truthy(a.privacy_policy_url)
        THEN Append_(a, key, SkipFinding(key))
        ELSE LET r == GetText(a, key, f)
             IN  IF ~ Truthy(r.text)
                 THEN Append_(r.a, key, NoTextFinding(key))
                 ELSE Append_([r.a EXCEPT !.matched = @ \cup {key}], key,
                              Verdict(key, r.text))

\* Variant: pillar 5 without its guard on self.privacy_policy_url
_check_gdpr_pillar_5_transfers_no_url_guard(a, f) ==
    LET r == GetText(Enter(a, "gdpr_5"), "gdpr_5", f)
    IN  IF ~ Truthy(r.text)
        THEN Append_(r.a, "gdpr_5", NoTextFinding("gdpr_5"))
        ELSE Append_([r.a EXCEPT !.matched = @ \cup {"gdpr_5"}], "gdpr_5",
                     Verdict("gdpr_5", r.text))

module_5_breach_notification(a, f) == PolicyRule(a, "module_5", f)
module_6_children_data(a, f) == PolicyRule(a, "module_6", f)
module_7_data_retention(a, f) == PolicyRule(a, "module_7", f)
_check_gdpr_pillar_2_governance(a, f) == PolicyRule(a, "gdpr_2", f)
_check_gdpr_pillar_3_rights(a, f) == PolicyRule(a, "gdpr_3", f)
_check_gdpr_pillar_4_transparency(a, f) == PolicyRule(a, "gdpr_4", f)
_check_gdpr_pillar_5_transfers(a, f) == PolicyRule(a, "gdpr_5", f)

-----------------------------------------------------------------------------
(* What the collaborators may hand back during a run *)

Urls == {"www.example.com/home"}

ManualPolicyUrl == "https://example.com/legal/privacy"

GaCookie      == [name |-> "_ga",       domain |-> ".example.com"]
SessionCookie == [name |-> "sessionid", domain |-> "example.com"]
ThemeCookie   == [name |-> "theme",     domain |-> "cdn.adnet.io"]

NavFailure == Raise("WebDriverException", "net::ERR_NAME_NOT_RESOLVED")

NavOutcomes == {Ok(TRUE), NavFailure}

CookieOutcomes ==
    { Ok(<<>>), Ok(<<GaCookie>>), Ok(<<SessionCookie>>),
      Raise("WebDriverException", "timeout: cookies not available"),
      Raise("Exception", "connection pool closed") }

\* anchors of a page: text, href, and whether reading the element raises
PrivacyLink == [text |-> "Privacy Policy", href |-> "https://example.com/privacy", stale |-> FALSE]
TermsLink   == [text |-> "Terms",          href |-> "/terms",     stale |-> FALSE]
AboutLink   == [text |-> "About us",       href |-> "about.html", stale |-> FALSE]
NoHrefLink  == [text |-> "Cookie Notice",  href |-> "",           stale |-> FALSE]
StaleLink   == [text |-> "Data Policy",    href |-> "data.html",  stale |-> TRUE]

LinkOutcomes ==
    { Ok(<<>>), Ok(<<AboutLink>>), Ok(<<AboutLink, PrivacyLink>>),
      Ok(<<StaleLink, NoHrefLink, TermsLink>>),
      Raise("WebDriverException", "no such window") }

RequiredNames ==
    {"Strict-Transport-Security", "X-Frame-Options", "X-Content-Type-Options"}

ResponseOutcomes ==
    { Ok([status_code |-> 200, headers |-> [h \in RequiredNames |-> "on"]]),
      Ok([status_code |-> 200, headers |-> [h \in {"X-Frame-Options"} |-> "DENY"]]),
      Ok([status_code |-> 403, headers |-> <<>>]),
      Raise("RequestException", "connection refused"),
      Raise("Exception", "invalid header value") }

\* bodies a policy page may have (as served: not lower-cased)
RetentionBody == "Logs are kept one year; deletion on request"
GrievanceBody == "Grievance Officer dpo@example.com. Data Breach: we notify; we transfer data"

PolicyBodies == {"", RetentionBody, GrievanceBody}

NotCalled == Raise("NotCalled", "")

BrowserFailure == Raise("TimeoutException", "page load timed out")

HttpOutcomes ==
    { Ok([status_code |-> 200, text |-> GrievanceBody]),
      Ok([status_code |-> 404, text |-> "Not Found"]),
      Raise("ConnectionError", "connection refused") }

FetchOutcomes ==
    {[browser |-> Ok(t), http |-> NotCalled] : t \in PolicyBodies}
    \cup {[browser |-> BrowserFailure, http |-> h] : h \in HttpOutcomes}

-----------------------------------------------------------------------------
(* run_audit: _audit_dpdp and _audit_gdpr *)

\* the checker of rule `key` on the outputs `e` of the collaborators it calls
RunRule(key, a, e) ==
    CASE key = "module_1" -> module_1_consent_audit(a, e.nav, e.cookies)
      [] key = "module_2" -> module_2_notice_audit(a, e.site)
      [] key = "module_3" -> module_3_security_safeguards(a, e.resp)
      [] key = "module_4" -> module_4_grievance_redressal(a, e.fetch, e.order)
      [] key = "module_5" -> module_5_breach_notification(a, e.fetch)
      [] key = "module_6" -> module_6_children_data(a, e.fetch)
      [] key = "module_7" -> module_7_data_retention(a, e.fetch)
      [] key = "gdpr_1"   -> _check_gdpr_pillar_1_consent(a, e.nav, e.cookies)
      [] key = "gdpr_2"   -> _check_gdpr_pillar_2_governance(a, e.fetch)
      [] key = "gdpr_3"   -> _check_gdpr_pillar_3_rights(a, e.fetch)
      [] key = "gdpr_4"   -> _check_gdpr_pillar_4_transparency(a, e.fetch)
      [] key = "gdpr_5"   -> _check_gdpr_pillar_5_transfers(a, e.fetch)

NoEnv == [fixed |-> FALSE]

\* auditor = DPDP_Auditor(url, law), then the web page's optional
\* auditor.privacy_policy_url = validated_policy_url
Init ==
    /\ law \in {"DPDP", "GDPR"}
    /\ \E url \in Urls, policy \in {None, ManualPolicyUrl} :
          auditor = NewAuditor(url, law, policy)
    /\ pc = "start"
    /\ todo = ProfileKeys(law)
    /\ env = NoEnv
    /\ returned = None

\* Variant: the handler hands back a fresh, empty report
Fatal_discards(detail) ==
    /\ auditor' = [auditor EXCEPT !.fatal = detail]
    /\ returned' = [k \in KeySet(law) |-> <<>>]
    /\ pc' = "finally"
    /\ UNCHANGED <<law, todo, env>>

\* `except Exception as e:` of _audit_dpdp / _audit_gdpr: return self.audit_report
Fatal(detail) ==
    /\ auditor' = [auditor EXCEPT !.fatal = detail]
    /\ returned' = auditor.audit_report
    /\ pc' = "finally"
    /\ UNCHANGED <<law, todo, env>>

\* self.driver = self._setup_driver()
SetupDriver ==
    /\ pc = "start"
    /\ \/ /\ auditor' = [auditor EXCEPT !.driver = "open"]
          /\ pc' = "rules"
          /\ UNCHANGED <<law, todo, env, returned>>
       \/ Fatal("Could not open Edge Browser")

\* the orchestrator is about to call the checker of `key`
Turn(key) == pc = "rules" /\ todo # <<>> /\ Head(todo) = key

\* The collaborator call of rule `key` that raises inside the checker's outer
\* try block, if any: driver.get / get_cookies for the consent rules,
\* page_source / find_elements for the notice rule, requests.get for the
\* security-header rule. (The policy fetch catches its own exceptions.)
CheckerFailure(key, a, e) ==
    LET one(o) == IF o.ok THEN <<>> ELSE << <<key, o.exc, o.detail>> >>
    IN  CASE key \in {"module_1", "gdpr_1"} ->
               IF ~ e.nav.ok THEN one(e.nav) ELSE one(e.cookies)
          [] key = "module_2" -> one(PageLinks(a, e.site))
          [] key = "module_3" -> one(e.resp)
          [] OTHER -> <<>>

\* the call itself, and the move to the next statement
Step(key, e) ==
    /\ auditor' = [RunRule(key, auditor, e) EXCEPT
                      !.failed = @ \o CheckerFailure(key, auditor, e)]
    /\ todo' = Tail(todo)
    /\ pc' = IF Tail(todo) = <<>> THEN "report" ELSE "rules"
    /\ UNCHANGED <<law, env, returned>>

Module1 ==
    /\ Turn("module_1")
    /\ \E nav \in NavOutcomes, ck \in CookieOutcomes :
          Step("module_1", [nav |-> nav, cookies |-> ck])

Module2 ==
    /\ Turn("module_2")
    /\ \E lk \in LinkOutcomes :
          Step("module_2", [site |-> [target |-> lk, policy |-> lk]])

Module3 ==
    /\ Turn("module_3")
    /\ \E resp \in ResponseOutcomes : Step("module_3", [resp |-> resp])

Module4 ==
    /\ Turn("module_4")
    /\ \E f \in FetchOutcomes :
          \E order \in Orders(EmailSet(TextSeenBy(auditor, f))) :
              Step("module_4", [fetch |-> f, order |-> order])

Module5 ==
    /\ Turn("module_5")
    /\ \E f \in FetchOutcomes : Step("module_5", [fetch |-> f])

Module6 ==
    /\ Turn("module_6")
    /\ \E f \in FetchOutcomes : Step("module_6", [fetch |-> f])

Module7 ==
    /\ Turn("module_7")
    /\ \E f \in FetchOutcomes : Step("module_7", [fetch |-> f])

Gdpr1 ==
    /\ Turn("gdpr_1")
    /\ \E nav \in NavOutcomes, ck \in CookieOutcomes :
          Step("gdpr_1", [nav |-> nav, cookies |-> ck])

Gdpr2 ==
    /\ Turn("gdpr_2")
    /\ \E f \in FetchOutcomes : Step("gdpr_2", [fetch |-> f])

Gdpr3 ==
    /\ Turn("gdpr_3")
    /\ \E f \in FetchOutcomes : Step("gdpr_3", [fetch |-> f])

Gdpr4 ==
    /\ Turn("gdpr_4")
    /\ \E f \in FetchOutcomes : Step("gdpr_4", [fetch |-> f])

Gdpr5 ==
    /\ Turn("gdpr_5")
    /\ \E f \in FetchOutcomes : Step("gdpr_5", [fetch |-> f])

\* self._generate_report(): it only prints; an exception it raises (the console
\* cannot encode a character) reaches run_audit's handler
GenerateReport ==
    /\ pc = "report"
    /\ \/ /\ pc' = "pdf"
          /\ UNCHANGED <<law, auditor, todo, env, returned>>
       \/ Fatal("'charmap' codec can't encode character")

\* pdf_file = self._generate_pdf_report(); return self.audit_report.
\* The reportlab imports sit outside its try block: an ImportError escapes.
GeneratePdf ==
    /\ pc = "pdf"
    /\ \/ /\ returned' = auditor.audit_report
          /\ pc' = "finally"
          /\ UNCHANGED <<law, auditor, todo, env>>
       \/ Fatal("No module named 'reportlab'")

\* Variant: a run that ended in the handler leaves the driver open
Finally_only_on_success ==
    /\ pc = "finally"
    /\ auditor' = IF auditor.driver # None /\ auditor.fatal = None
                  THEN [auditor EXCEPT !.quits = @ + 1]
                  ELSE auditor
    /\ pc' = "done"
    /\ UNCHANGED <<law, todo, env, returned>>

\* finally: if self.driver: self.driver.quit()
Finally ==
    /\ pc = "finally"
    /\ auditor' = IF auditor.driver # None
                  THEN [auditor EXCEPT !.quits = @ + 1]
                  ELSE auditor
    /\ pc' = "done"
    /\ UNCHANGED <<law, todo, env, returned>>

Next ==
    \/ SetupDriver
    \/ Module1 \/ Module2 \/ Module3 \/ Module4 \/ Module5 \/ Module6 \/ Module7
    \/ Gdpr1 \/ Gdpr2 \/ Gdpr3 \/ Gdpr4 \/ Gdpr5
    \/ GenerateReport
    \/ GeneratePdf
    \/ Finally

Spec == Init /\ [][Next]_vars

-----------------------------------------------------------------------------
(* The consent checker alone, on cookie jars drawn from a pool (SpecConsent) *)

MaxCookies == 2

\* the sequences over S of length at most n
SeqsUpTo(S, n) == UNION {[1..k -> S] : k \in 0..n}

ConsentUrls == {"example.com", "https://www.example.com/home", "http://cdn.example.com"}

CookiePool ==
    { [name |-> "_ga",           domain |-> ".example.com"],
      [name |-> "sessionid",     domain |-> "example.com"],
      [name |-> "theme",         domain |-> "cdn.adnet.io"],
      [name |-> "_FBP",          domain |-> ".Facebook.com"],
      [name |-> "_gid",          domain |-> ".example.com"],
      [name |-> "lang",          domain |-> "www.example.com"],
      [name |-> "language_pref", domain |-> "ads.tracker.net"],
      [name |-> "magecache",     domain |-> ".example.com"],
      [name |-> "authToken",     domain |-> ".doubleclick.net"],
      [name |-> "_ga",           domain |-> "example.com"],
      [name |-> "prefs",         domain |-> ".example.com"],
      [name |-> "Locale",        domain |-> "CDN.www.Example.com"] }

ConsentKey(l) == IF l = "GDPR" THEN "gdpr_1" ELSE "module_1"

\* the auditor once self._setup_driver() has returned
Opened(a) == [a EXCEPT !.driver = "open"]

InitConsent ==
    /\ law \in {"DPDP", "GDPR"}
    /\ \E url \in ConsentUrls : auditor = Opened(NewAuditor(url, law, None))
    /\ pc = "rules"
    /\ todo = <<ConsentKey(law)>>
    /\ \E jar \in SeqsUpTo(CookiePool, MaxCookies) :
          env = [fixed |-> TRUE, nav |-> Ok(TRUE), cookies |-> Ok(jar)]
    /\ returned = None

ConsentDpdp ==
    /\ Turn("module_1")
    /\ env.fixed
    /\ Step("module_1", [nav |-> env.nav, cookies |-> env.cookies])

ConsentGdpr ==
    /\ Turn("gdpr_1")
    /\ env.fixed
    /\ Step("gdpr_1", [nav |-> env.nav, cookies |-> env.cookies])

NextConsent == ConsentDpdp \/ ConsentGdpr

SpecConsent == InitConsent /\ [][NextConsent]_vars

-----------------------------------------------------------------------------
(* The security-header checker alone, on responses drawn from header names and
   status codes (SpecHeaders) *)

\* names a response may carry, as the server spells them
ServedNames ==
    {"Strict-Transport-Security", "x-frame-options", "X-Content-Type-Options",
     "Server", "Content-Type"}

ServedValue(h) ==
    IF h = "Strict-Transport-Security"
    THEN "max-age=63072000; includeSubDomains; preload; report-uri=/hsts"
    ELSE "on"

StatusCodes == {200, 403, 500}

InitHeaders ==
    /\ law = "DPDP"
    /\ auditor = Opened(NewAuditor("www.example.com/home", law, None))
    /\ pc = "rules"
    /\ todo = <<"module_3">>
    /\ \E names \in SUBSET ServedNames, code \in StatusCodes :
          env = [fixed |-> TRUE,
                 resp  |-> Ok([status_code |-> code,
                               headers |-> [h \in names |-> ServedValue(h)]])]
    /\ returned = None

HeaderCheck ==
    /\ Turn("module_3")
    /\ env.fixed
    /\ Step("module_3", [resp |-> env.resp])

NextHeaders == HeaderCheck

SpecHeaders == InitHeaders /\ [][NextHeaders]_vars

-----------------------------------------------------------------------------
(* The evidence locator _is_email_near_keyword alone (SpecNear) *)

Pad == "- - - - - - - - - - - - - - - - - - - - - - - - - "

\* more than DefaultDistance characters of filler
LongPad == Pad \o Pad \o Pad \o Pad \o Pad

NearTexts ==
    { "officer dpo@x.io",
      "dpo@x.io is our officer",
      "officer of the month: nobody. officer dpo@x.io, grievance desk",
      "no contact is given here",
      "grievance officer" \o LongPad \o "help@x.io or dpo@x.io",
      "help@x.io" \o LongPad \o "grievance desk, see help@x.io" }

NearNeedles == {"dpo@x.io", "help@x.io"}

NearKeywords == {"officer", "grievance", "dpo"}

NearDistances == {0, 7, 8, DefaultDistance}

InitNear ==
    /\ law = "DPDP"
    /\ auditor = NewAuditor("www.example.com/home", law, None)
    /\ pc = "locate"
    /\ todo = <<>>
    /\ \E t \in NearTexts, n \in NearNeedles, k \in NearKeywords, d \in NearDistances :
          env = [fixed |-> TRUE, text |-> t, needle |-> n, keyword |-> k, distance |-> d]
    /\ returned = None

\* return self._is_email_near_keyword(text, needle, keyword, distance)
Locate ==
    /\ pc = "locate"
    /\ returned' = _is_email_near_keyword(env.text, env.needle, env.keyword, env.distance)
    /\ pc' = "located"
    /\ UNCHANGED <<law, auditor, todo, env>>

NextNear == Locate

SpecNear == InitNear /\ [][NextNear]_vars

-----------------------------------------------------------------------------
(* The policy-text rules on policy documents put together from sentences
   (SpecText) *)

MaxSentences == 2

Sentences ==
    << "Grievance Officer DPO@Example.com handles it.",
       "Billing: pay@example.com.",
       "Support desk." \o LongPad \o "Sales: sales@example.com.",
       "Write to dpo@example.com, our officer.",
       "You may access, rectify, restrict or erase data and raise an objection.",
       "Data is portable.",
       "You may Access, correct or suspend data.",
       "We transfer data abroad.",
       "Standard Contractual Clauses (SCC) apply.",
       "You may lodge a complaint with the ICO.",
       "We notify you of any Data Breach within 72 hours.",
       "Parental consent is needed for a child.",
       "we retain logs for one year and allow deletion on request" >>

\* the sentences at the positions S, in order, one space between them
RECURSIVE Document(_, _)
Document(S, from) ==
    IF from > Len(Sentences) THEN ""
    ELSE IF from \in S
    THEN Sentences[from]
         \o (IF \E j \in S : j > from THEN " " ELSE "")
         \o Document(S, from + 1)
    ELSE Document(S, from + 1)

Documents ==
    {Document(S, 1) : S \in {T \in SUBSET DOMAIN Sentences :
                                Cardinality(T) \in 1..MaxSentences}}

TextRules(l) ==
    IF l = "GDPR" THEN <<"gdpr_2", "gdpr_3", "gdpr_4", "gdpr_5">>
    ELSE <<"module_4", "module_5", "module_6", "module_7">>

InitText ==
    /\ law \in {"DPDP", "GDPR"}
    /\ auditor = Opened(NewAuditor("www.example.com/home", law, ManualPolicyUrl))
    /\ pc = "rules"
    /\ todo = TextRules(law)
    /\ \E body \in Documents :
          env = [fixed |-> TRUE, body |-> body,
                 fetch |-> [browser |-> Ok(body), http |-> NotCalled]]
    /\ returned = None

\* the next policy-text rule of the profile is called
EvaluateText ==
    /\ pc = "rules" /\ todo # <<>>
    /\ env.fixed
    /\ \E order \in (IF Head(todo) = "module_4"
                     THEN Orders(EmailSet(TextSeenBy(auditor, env.fetch)))
                     ELSE {<<>>}) :
          Step(Head(todo), [fetch |-> env.fetch, order |-> order])

NextText == EvaluateText

SpecText == InitText /\ [][NextText]_vars

-----------------------------------------------------------------------------
(* The rules of a profile in any order on fixed collaborator outputs
   (SpecAnyOrder) *)

MixedBody == "Contact our DPO. You may Access and Delete data; Transfer abroad under SCC"

\* the inputs rule-independent collaborators hand to a checker called on `a`
Inputs(a, e) ==
    [ nav     |-> e.nav,
      cookies |-> e.cookies,
      site    |-> e.site,
      resp    |-> e.resp,
      fetch   |-> e.fetch,
      order   |-> CHOOSE o \in Orders(EmailSet(TextSeenBy(a, e.fetch))) : TRUE ]

\* the checkers of `keys` called one after the other
RECURSIVE RunAll(_, _, _)
RunAll(keys, a, e) ==
    IF keys = <<>> THEN a
    ELSE RunAll(Tail(keys), RunRule(Head(keys), a, Inputs(a, e)), e)

FixedOutputs ==
    { [ fixed   |-> TRUE,
        nav     |-> Ok(TRUE),
        cookies |-> Ok(<<GaCookie>>),
        site    |-> [target |-> lk, policy |-> Ok(<<TermsLink>>)],
        resp    |-> Ok([status_code |-> 200,
                        headers |-> [h \in {"X-Frame-Options"} |-> "DENY"]]),
        fetch   |-> f ] :
        lk \in {Ok(<<AboutLink>>), Ok(<<AboutLink, PrivacyLink>>)},
        f  \in {[browser |-> Ok(MixedBody), http |-> NotCalled],
                [browser |-> BrowserFailure,
                 http |-> Ok([status_code |-> 404, text |-> "Not Found"])]} }

InitAnyOrder ==
    /\ law \in {"DPDP", "GDPR"}
    /\ \E policy \in {None, ManualPolicyUrl}, e \in FixedOutputs :
          /\ auditor = NewAuditor("www.example.com/home", law, policy)
          /\ env = e @@ [declared |->
                   RunAll(ProfileKeys(law), Opened(auditor), e).audit_report]
    /\ pc = "start"
    /\ todo = ProfileKeys(law)
    /\ returned = None

\* todo without its i-th element
Without(seq, i) == SubSeq(seq, 1, i - 1) \o SubSeq(seq, i + 1, Len(seq))

\* any rule of the profile not yet evaluated is evaluated next
EvaluateAny ==
    /\ pc = "rules"
    /\ env.fixed
    /\ \E i \in DOMAIN todo :
          /\ auditor' = [RunRule(todo[i], auditor, Inputs(auditor, env)) EXCEPT
                           !.failed = @ \o CheckerFailure(todo[i], auditor, env)]
          /\ todo' = Without(todo, i)
          /\ pc' = IF Len(todo) = 1 THEN "report" ELSE "rules"
    /\ UNCHANGED <<law, env, returned>>

NextAnyOrder == SetupDriver \/ EvaluateAny

SpecAnyOrder == InitAnyOrder /\ [][NextAnyOrder]_vars

-----------------------------------------------------------------------------
(* The three summaries of a report: the console summary of _generate_report,
   the summary table of _generate_pdf_report and the metrics row of the web
   page (SpecSummary) *)

StatusNames == <<"PASS", "RISK", "VIOLATION", "ERROR", "SKIP">>

\* the findings under the keys of `keys` whose status is s
RECURSIVE CountIn(_, _, _)
CountIn(report, keys, s) ==
    IF keys = <<>> THEN 0
    ELSE Cardinality({i \in DOMAIN report[Head(keys)] :
                         report[Head(keys)][i].status = s})
         + CountIn(report, Tail(keys), s)

\* status_count after the two nested loops over self.audit_report
status_count(report, keys) ==
    [s \in {StatusNames[i] : i \in DOMAIN StatusNames} |-> CountIn(report, keys, s)]

\* Variant: a report in which no rule passed is not rated HIGH
_generate_report_needs_pass(report, keys) ==
    LET violations == status_count(report, keys)["VIOLATION"]
        risks      == status_count(report, keys)["RISK"]
        passes     == status_count(report, keys)["PASS"]
    IN  [compliance_level |-> IF violations = 0 /\ risks = 0 /\ passes > 0 THEN "HIGH"
                              ELSE IF violations = 0 THEN "MEDIUM"
                              ELSE "LOW",
         violations |-> violations,
         risks      |-> risks,
         passes     |-> passes]

\* what _generate_report prints under OVERALL COMPLIANCE SCORE (the level
\* without its tick, warning or cross sign)
_generate_report(report, keys) ==
    LET violations == status_count(report, keys)["VIOLATION"]
        risks      == status_count(report, keys)["RISK"]
        passes     == status_count(report, keys)["PASS"]
    IN  [compliance_level |-> IF violations = 0 /\ risks = 0 THEN "HIGH"
                              ELSE IF violations = 0 THEN "MEDIUM"
                              ELSE "LOW",
         violations |-> violations,
         risks      |-> risks,
         passes     |-> passes]

\* Variant: the PDF summary rates a report with risks MEDIUM, violations or not
_generate_pdf_report_risk_first(report, keys) ==
    LET violations == status_count(report, keys)["VIOLATION"]
        risks      == status_count(report, keys)["RISK"]
        passes     == status_count(report, keys)["PASS"]
    IN  [compliance_level |-> IF violations = 0 /\ risks = 0 THEN "HIGH"
                              ELSE IF risks > 0 THEN "MEDIUM"
                              ELSE "LOW",
         passed       |-> passes,
         risks        |-> risks,
         violations   |-> violations,
         total_checks |-> passes + risks + violations]

\* the rows of the COMPLIANCE SUMMARY table of _generate_pdf_report
_generate_pdf_report(report, keys) ==
    LET violations == status_count(report, keys)["VIOLATION"]
        risks      == status_count(report, keys)["RISK"]
        passes     == status_count(report, keys)["PASS"]
    IN  [compliance_level |-> IF violations = 0 /\ risks = 0 THEN "HIGH"
                              ELSE IF violations = 0 THEN "MEDIUM"
                              ELSE "LOW",
         passed       |-> passes,
         risks        |-> risks,
         violations   |-> violations,
         total_checks |-> passes + risks + violations]

\* Variant: the page counts every finding, SKIP included, as a check
compliance_score_all_findings(report, keys) ==
    LET passes == CountIn(report, keys, "PASS")
        total_checks == CountIn(report, keys, "PASS") + CountIn(report, keys, "VIOLATION")
                        + CountIn(report, keys, "RISK") + CountIn(report, keys, "ERROR")
                        + CountIn(report, keys, "SKIP")
    IN  IF total_checks > 0 THEN (passes * 100) \div total_checks ELSE 0

\* compliance_score = int((passes / total_checks * 100)) if total_checks > 0 else 0
\* over the page's four counters. The quotient is a double in the code; it
\* truncates to the exact floor for every total_checks below 50 (29/50 is the
\* first pair on which the two differ), and a report holds one finding per rule.
compliance_score(report, keys) ==
    LET violations == CountIn(report, keys, "VIOLATION")
        passes     == CountIn(report, keys, "PASS")
        risks      == CountIn(report, keys, "RISK")
        errors     == CountIn(report, keys, "ERROR")
        total_checks == passes + violations + risks + errors
    IN  IF total_checks > 0 THEN (passes * 100) \div total_checks ELSE 0

\* n findings of status s
Run(s, n) == [i \in 1..n |-> [status |-> s, message |-> s \o " finding"]]

\* how many findings of each status a report of profile l may hold: at most one
\* finding per rule
Tallies(l) ==
    {c \in [{StatusNames[i] : i \in DOMAIN StatusNames} -> 0..Len(ProfileKeys(l))] :
        c["PASS"] + c["RISK"] + c["VIOLATION"] + c["ERROR"] + c["SKIP"]
            <= Len(ProfileKeys(l))}

\* the report of profile l that holds the findings of tally c, one per rule,
\* the first rules served first
ReportOf(l, c) ==
    LET findings == Run("PASS", c["PASS"]) \o Run("RISK", c["RISK"])
                    \o Run("VIOLATION", c["VIOLATION"]) \o Run("ERROR", c["ERROR"])
                    \o Run("SKIP", c["SKIP"])
        keys == ProfileKeys(l)
    IN  [k \in KeySet(l) |->
            LET i == CHOOSE i \in DOMAIN keys : keys[i] = k
            IN  IF i <= Len(findings) THEN <<findings[i]>> ELSE <<>>]

\* the report without its findings of the statuses in `drop`
RECURSIVE Keep(_, _)
Keep(findings, drop) ==
    IF findings = <<>> THEN <<>>
    ELSE (IF Head(findings).status \in drop THEN <<>> ELSE <<Head(findings)>>)
         \o Keep(Tail(findings), drop)

Dropping(report, drop) == [k \in DOMAIN report |-> Keep(report[k], drop)]

\* Two auditors of the same profile hold a report each: `auditor` the full one,
\* env.twin the same report without the findings of some of the statuses PASS,
\* ERROR and SKIP.
InitSummary ==
    /\ law \in {"DPDP", "GDPR"}
    /\ \E c \in Tallies(law) :
          auditor = [Opened(NewAuditor("www.example.com/home", law, None))
                        EXCEPT !.audit_report = ReportOf(law, c)]
    /\ pc = "report"
    /\ todo = <<>>
    /\ \E drop \in SUBSET {"PASS", "ERROR", "SKIP"} :
          env = [fixed |-> TRUE, drop |-> drop,
                 twin |-> Dropping(auditor.audit_report, drop)]
    /\ returned = None

\* self._generate_report(), on either auditor
SummaryConsole ==
    /\ pc = "report" /\ env.fixed
    /\ env' = env @@ [console      |-> _generate_report(auditor.audit_report, ProfileKeys(law)),
                      console_twin |-> _generate_report(env.twin, ProfileKeys(law))]
    /\ pc' = "pdf"
    /\ UNCHANGED <<law, auditor, todo, returned>>

\* self._generate_pdf_report(), on either auditor
SummaryPdf ==
    /\ pc = "pdf" /\ env.fixed
    /\ env' = env @@ [pdf      |-> _generate_pdf_report(auditor.audit_report, ProfileKeys(law)),
                      pdf_twin |-> _generate_pdf_report(env.twin, ProfileKeys(law))]
    /\ pc' = "page"
    /\ UNCHANGED <<law, auditor, todo, returned>>

\* the metrics row of the page: report = auditor.audit_report, then the score
SummaryPage ==
    /\ pc = "page" /\ env.fixed
    /\ env' = env @@ [score |-> compliance_score(auditor.audit_report, ProfileKeys(law))]
    /\ returned' = auditor.audit_report
    /\ pc' = "shown"
    /\ UNCHANGED <<law, auditor, todo>>

NextSummary == SummaryConsole \/ SummaryPdf \/ SummaryPage

SpecSummary == InitSummary /\ [][NextSummary]_vars

-----------------------------------------------------------------------------
(* One policy-text rule evaluated twice on the same policy text: again by the
   same auditor, or by an auditor of a separate run (SpecTwice) *)

\* env.order is the order in which this interpreter process iterates the set of
\* the document's emails (it follows from the process's string hash seed)
InitTwice ==
    /\ law \in {"DPDP", "GDPR"}
    /\ auditor = Opened(NewAuditor("www.example.com/home", law, ManualPolicyUrl))
    /\ pc = "rules"
    /\ \E key \in {TextRules(law)[i] : i \in DOMAIN TextRules(law)} :
          todo = <<key, key>>
    /\ \E body \in Documents :
          \E order \in Orders(EmailSet(Lower(body))) :
              env = [fixed |-> TRUE, body |-> body, order |-> order,
                     fetch |-> [browser |-> Ok(body), http |-> NotCalled]]
    /\ returned = None

\* the rule's checker is called
EvaluateOnce ==
    /\ pc = "rules" /\ Len(todo) = 2
    /\ env.fixed
    /\ Step(Head(todo), [fetch |-> env.fetch, order |-> env.order])

\* the same auditor, in the same process, calls the checker once more
EvaluateAgain ==
    /\ pc = "rules" /\ Len(todo) = 1
    /\ env.fixed
    /\ Step(Head(todo), [fetch |-> env.fetch, order |-> env.order])

\* an auditor of a separate run (a new interpreter process, with its own hash
\* seed) calls the checker on the same document
EvaluateInSeparateRun ==
    /\ pc = "rules" /\ Len(todo) = 1
    /\ env.fixed
    /\ \E order \in Orders(EmailSet(Lower(env.body))) :
          env' = env @@
              [separate |->
                  RunRule(Head(todo),
                          Opened(NewAuditor("www.example.com/home", law, ManualPolicyUrl)),
                          [fetch |-> env.fetch, order |-> order])]
    /\ todo' = Tail(todo)
    /\ pc' = "report"
    /\ UNCHANGED <<law, auditor, returned>>

NextTwice == EvaluateOnce \/ EvaluateAgain \/ EvaluateInSeparateRun

SpecTwice == InitTwice /\ [][NextTwice]_vars

-----------------------------------------------------------------------------
(* The two consent checkers on the same cookie jar and audited URL: a DPDP
   auditor and a GDPR auditor (SpecPair) *)

InitPair ==
    /\ law = "DPDP"
    /\ \E url \in ConsentUrls :
          /\ auditor = Opened(NewAuditor(url, "DPDP", None))
          /\ \E jar \in SeqsUpTo(CookiePool, MaxCookies) :
                env = [fixed |-> TRUE, nav |-> Ok(TRUE), cookies |-> Ok(jar),
                       gdpr |-> Opened(NewAuditor(url, "GDPR", None))]
    /\ pc = "rules"
    /\ todo = <<"module_1">>
    /\ returned = None

\* the GDPR auditor's self._check_gdpr_pillar_1_consent()
PairGdpr ==
    /\ pc = "report" /\ env.fixed
    /\ env' = [env EXCEPT !.gdpr = _check_gdpr_pillar_1_consent(@, env.nav, env.cookies)]
    /\ pc' = "compared"
    /\ UNCHANGED <<law, auditor, todo, returned>>

NextPair == ConsentDpdp \/ PairGdpr

SpecPair == InitPair /\ [][NextPair]_vars

-----------------------------------------------------------------------------
(* The consent checkers on a lone cookie that bears a tracker signature as its
   name and the audited domain as its domain (SpecSignatures) *)

InitSignatures ==
    /\ law \in {"DPDP", "GDPR"}
    /\ \E url \in ConsentUrls :
          /\ auditor = Opened(NewAuditor(url, law, None))
          /\ \E i \in DOMAIN (IF law = "GDPR" THEN gdpr_tracker_signatures
                              ELSE tracker_signatures) :
                env = [fixed |-> TRUE, nav |-> Ok(TRUE),
                       cookies |-> Ok(<< [name   |-> (IF law = "GDPR"
                                                      THEN gdpr_tracker_signatures
                                                      ELSE tracker_signatures)[i],
                                          domain |-> auditor.domain] >>)]
    /\ pc = "rules"
    /\ todo = <<ConsentKey(law)>>
    /\ returned = None

SpecSignatures == InitSignatures /\ [][NextConsent]_vars

-----------------------------------------------------------------------------
(* The policy-text rules of a profile, each call of _get_policy_text meeting
   whatever the browser and the HTTP client hand back, with the call's
   circumstances kept for inspection (SpecFetch) *)

InitFetch ==
    /\ law \in {"DPDP", "GDPR"}
    /\ \E policy \in {None, ManualPolicyUrl} :
          auditor = Opened(NewAuditor("www.example.com/home", law, policy))
    /\ pc = "rules"
    /\ todo = TextRules(law)
    /\ env = [fixed |-> TRUE, calls |-> 0]
    /\ returned = None

\* The next policy-text rule is called. env keeps what the collaborators
\* handed back and what the auditor held when the rule was entered.
FetchingRule ==
    /\ pc = "rules" /\ todo # <<>>
    /\ env.fixed
    /\ \E f \in FetchOutcomes :
          \E order \in (IF Head(todo) = "module_4"
                        THEN Orders(EmailSet(TextSeenBy(auditor, f)))
                        ELSE {<<>>}) :
              /\ auditor' = RunRule(Head(todo), auditor, [fetch |-> f, order |-> order])
              /\ env' = [fixed |-> TRUE,
                         calls |-> env.calls + 1,
                         fetch |-> f,
                         cache_before   |-> auditor.privacy_policy_text,
                         url_before     |-> auditor.privacy_policy_url,
                         fetches_before |-> Len(auditor.fetches),
                         seen_before    |-> Len(auditor.seen)]
    /\ todo' = Tail(todo)
    /\ pc' = IF Tail(todo) = <<>> THEN "report" ELSE "rules"
    /\ UNCHANGED <<law, returned>>

NextFetch == FetchingRule

SpecFetch == InitFetch /\ [][NextFetch]_vars

-----------------------------------------------------------------------------
(* Properties of a run in the declared order (Spec) *)

\* how many entries of a log carry `key` in their first field
Count(log, key) == Cardinality({i \in DOMAIN log : log[i][1] = key})

\* the findings a log of appends holds for `key`, in the order they were appended
RECURSIVE FindingsFor(_, _)
FindingsFor(log, key) ==
    IF log = <<>> THEN <<>>
    ELSE (IF Head(log)[1] = key THEN <<Head(log)[2]>> ELSE <<>>)
         \o FindingsFor(Tail(log), key)

TextRuleKeys ==
    {"module_4", "module_5", "module_6", "module_7",
     "gdpr_2", "gdpr_3", "gdpr_4", "gdpr_5"}

ConsentKeys == {"module_1", "gdpr_1"}

Launched == auditor.driver # None

\* every rule of the profile has been called
RulesOver == Launched /\ pc \in {"report", "pdf", "finally", "done"}

\* the one finding rule `key` left
FindingOf(key) == auditor.audit_report[key][1]

\* the text the rule's call of _get_policy_text returned, "" when it made none
TextOf(key) ==
    IF \E i \in DOMAIN auditor.seen : auditor.seen[i][1] = key
    THEN auditor.seen[CHOOSE i \in DOMAIN auditor.seen : auditor.seen[i][1] = key][2]
    ELSE ""

\* the policy URL rule `key` found on entry
UrlAtEntry(key) ==
    auditor.invoked[CHOOSE i \in DOMAIN auditor.invoked : auditor.invoked[i][1] = key][2]

Invoked(key) == Count(auditor.invoked, key) > 0

C2_NoPolicyUrlSkips ==
    \A k \in TextRuleKeys :
        (Invoked(k) /\ ~ Truthy(UrlAtEntry(k))) =>
            /\ Len(auditor.audit_report[k]) = 1
            /\ FindingOf(k).status = "SKIP"
            /\ \A j \in DOMAIN auditor.fetches : auditor.fetches[j][1] # k
            /\ k \notin auditor.matched

C2_Witness ==
    /\ pc = "done" /\ law = "DPDP"
    /\ \A k \in {"module_4", "module_5", "module_6", "module_7"} :
          /\ Invoked(k) /\ UrlAtEntry(k) = None
          /\ FindingOf(k).status = "SKIP"
    /\ auditor.fetches = <<>>

\* C3 as stated: a policy-text rule that holds empty policy text records SKIP,
\* never VIOLATION - also when the URL is known and the fetch gave no text.
C3_EmptyTextSkips ==
    \A k \in TextRuleKeys :
        (Invoked(k) /\ TextOf(k) = "") =>
            /\ FindingOf(k).status = "SKIP"
            /\ k \notin auditor.matched

\* C3 amended: a policy-text rule that holds empty policy text does no keyword
\* matching and never records VIOLATION, RISK or PASS; its finding is SKIP when
\* no URL is known or the rule is the grievance rule, and ERROR for the other
\* rules when the URL is known and the fetch gave no text.
C3_EmptyTextSkipsOrErrors ==
    \A k \in TextRuleKeys :
        (Invoked(k) /\ TextOf(k) = "") =>
            /\ Len(auditor.audit_report[k]) = 1
            /\ FindingOf(k).status =
                  (IF k = "module_4" \/ ~ Truthy(UrlAtEntry(k)) THEN "SKIP" ELSE "ERROR")
            /\ k \notin auditor.matched

C3_Witness ==
    /\ law = "DPDP"
    /\ Invoked("module_4") /\ Truthy(UrlAtEntry("module_4"))
    /\ TextOf("module_4") = "" /\ FindingOf("module_4").status = "SKIP"
    /\ Invoked("module_5") /\ Truthy(UrlAtEntry("module_5"))
    /\ \E i \in DOMAIN auditor.seen : auditor.seen[i] = <<"module_5", "">>
    /\ FindingOf("module_5").status = "ERROR"

\* a collaborator of rule `key` failed to deliver the rule's input signal: the
\* browser (navigation or cookie collection) for the consent rules, the header
\* request for the security-header rule
SignalFailures ==
    {i \in DOMAIN auditor.failed :
        \/ auditor.failed[i][1] \in ConsentKeys /\ auditor.failed[i][2] = "WebDriverException"
        \/ auditor.failed[i][1] = "module_3" /\ auditor.failed[i][2] = "RequestException"}

\* C4 as stated: a rule whose collaborator fails to deliver its signal records
\* SKIP, and the rules after it are still evaluated.
C4_FailedCollaboratorSkips ==
    /\ \A i \in SignalFailures : FindingOf(auditor.failed[i][1]).status = "SKIP"
    /\ (RulesOver /\ SignalFailures # {}) => \A k \in KeySet(law) : Invoked(k)

\* C4 amended: a rule whose collaborator fails to deliver its signal records
\* ERROR (not SKIP) with the failure's text in the message, and the rules after
\* it are still evaluated.
C4_FailedCollaboratorErrors ==
    /\ \A i \in SignalFailures :
          LET k == auditor.failed[i][1]
          IN  /\ Len(auditor.audit_report[k]) = 1
              /\ FindingOf(k).status = "ERROR"
              /\ Contains(FindingOf(k).message, auditor.failed[i][3])
    /\ (RulesOver /\ SignalFailures # {}) =>
          \A k \in KeySet(law) : Invoked(k) /\ Len(auditor.audit_report[k]) = 1

C4_Witness ==
    /\ pc = "done" /\ law = "DPDP"
    /\ \E i \in SignalFailures :
          auditor.failed[i] = <<"module_1", "WebDriverException",
                                "timeout: cookies not available">>
    /\ \E i \in SignalFailures : auditor.failed[i][1] = "module_3"
    /\ FindingOf("module_1").status = "ERROR"
    /\ FindingOf("module_3").status = "ERROR"
    /\ \A k \in KeySet(law) : Len(auditor.audit_report[k]) = 1

PageLoadFailed ==
    \E i \in DOMAIN auditor.failed :
        /\ auditor.failed[i][1] \in ConsentKeys
        /\ auditor.failed[i][3] = NavFailure.detail

\* the rules whose signal comes from the browser on the target page
BrowserRules == KeySet(law) \cap {"module_1", "module_2", "gdpr_1"}

\* C6 as stated: when the driver cannot launch or the page cannot load, the
\* report of the finished run holds an ERROR finding for every rule that needs
\* the browser - never an empty list, never a verdict drawn from the failed page.
C6_LostSignalGivesError ==
    (pc = "done" /\ (~ Launched \/ PageLoadFailed)) =>
        \A k \in BrowserRules :
            /\ Len(returned[k]) = 1
            /\ returned[k][1].status = "ERROR"

\* C7: a run always hands back the report, and an exception that escapes to
\* the orchestrator (driver launch, report printing, PDF generation) loses no
\* finding appended before it.
C7_ReportAlwaysReturned ==
    /\ pc \in {"finally", "done"} =>
          /\ returned = auditor.audit_report
          /\ \A k \in KeySet(law) : returned[k] = FindingsFor(auditor.appended, k)
    /\ pc \notin {"finally", "done"} => returned = None

C7_Witness ==
    /\ pc = "done" /\ law = "DPDP"
    /\ auditor.fatal = "No module named 'reportlab'"
    /\ Len(auditor.appended) = 7
    /\ \A k \in KeySet(law) : Len(returned[k]) = 1

\* C8 as stated: within one run the acquisition sequence of _get_policy_text
\* (browser attempt, then HTTP fallback) is executed at most once.
C8_PolicyFetchedOnce == auditor.acquisitions <= 1

-----------------------------------------------------------------------------
(* Properties of the consent checker (SpecConsent) *)

\* the jar the checker was given
Jar == env.cookies.value

EssentialOf(l) == IF l = "GDPR" THEN gdpr_essential_keywords ELSE essential_keywords
SignaturesOf(l) == IF l = "GDPR" THEN gdpr_tracker_signatures ELSE tracker_signatures

\* the lower-cased name of the cookie holds some word of the table
NameHolds(cookie, table) ==
    \E i \in DOMAIN table : Contains(Lower(cookie.name), table[i])

\* the positions of the jar to flag: NOT essential AND (external OR tracker)
ToFlag ==
    {i \in DOMAIN Jar :
        /\ ~ NameHolds(Jar[i], EssentialOf(law))
        /\ \/ is_external_domain(Jar[i], auditor.domain)
           \/ NameHolds(Jar[i], SignaturesOf(law))}

\* the n-th position to flag, in jar order
NthFlag(n) == CHOOSE i \in ToFlag : Cardinality({j \in ToFlag : j < i}) = n - 1

\* C10: the consent check flags a cookie iff NOT is_essential AND (is_external
\* OR is_known_tracker), the two name tests being on the lower-cased name; a
\* flagged cookie is labelled "Known Tracker" whenever its name holds a tracker
\* signature, whatever its domain, and "External Domain" otherwise. The
\* finding lists exactly the flagged cookies, in jar order.
C10_FlaggedIffNotEssentialAndExternalOrTracker ==
    (env.fixed /\ Invoked(ConsentKey(law))) =>
        LET finding == FindingOf(ConsentKey(law))
        IN  IF ToFlag = {}
            THEN finding.status = "PASS" /\ "details" \notin DOMAIN finding
            ELSE /\ finding.status = "VIOLATION"
                 /\ Len(finding.details) = Cardinality(ToFlag)
                 /\ \A n \in 1..Cardinality(ToFlag) :
                       LET cookie == Jar[NthFlag(n)]
                       IN  /\ finding.details[n].name = cookie.name
                           /\ finding.details[n].type =
                                 (IF NameHolds(cookie, SignaturesOf(law))
                                  THEN "Known Tracker" ELSE "External Domain")

C10_Witness ==
    /\ env.fixed /\ law = "DPDP" /\ Invoked("module_1")
    /\ Len(Jar) = 2 /\ Jar[1].name = "_FBP" /\ Jar[2].name = "theme"
    /\ FindingOf("module_1").status = "VIOLATION"
    /\ Len(FindingOf("module_1").details) = 2
    /\ FindingOf("module_1").details[1].type = "Known Tracker"
    /\ FindingOf("module_1").details[1].domain = ".facebook.com"
    /\ FindingOf("module_1").details[2].type = "External Domain"

\* the evidence record of the cookie at position i of the jar
EvidenceOf(i) ==
    [name   |-> Jar[i].name,
     domain |-> Lower(Jar[i].domain),
     type   |-> IF NameHolds(Jar[i], SignaturesOf(law))
                THEN "Known Tracker" ELSE "External Domain"]

\* C11: the consent verdict is VIOLATION iff at least one observed cookie is
\* flagged, and then the evidence is one record per flagged cookie, all of
\* them, in observation order; it is PASS without evidence when the jar is
\* empty or holds no flagged cookie. The jar [_ga / example.com] on the
\* audited domain example.com gives VIOLATION with the single record
\* "Known Tracker".
C11_ViolationIffSomeFlagged ==
    (env.fixed /\ Invoked(ConsentKey(law))) =>
        LET finding == FindingOf(ConsentKey(law))
        IN  /\ Len(auditor.audit_report[ConsentKey(law)]) = 1
            /\ finding.status \in {"PASS", "VIOLATION"}
            /\ (finding.status = "VIOLATION") <=> (ToFlag # {})
            /\ (Jar = <<>>) => (finding.status = "PASS")
            /\ (finding.status = "PASS") => ("details" \notin DOMAIN finding)
            /\ (finding.status = "VIOLATION") =>
                   finding.details = [n \in 1..Cardinality(ToFlag) |-> EvidenceOf(NthFlag(n))]
            /\ (/\ Jar = << [name |-> "_ga", domain |-> "example.com"] >>
                /\ auditor.domain = "example.com") =>
                   /\ finding.status = "VIOLATION"
                   /\ finding.details = << [name |-> "_ga", domain |-> "example.com",
                                            type |-> "Known Tracker"] >>

C11_Witness ==
    /\ env.fixed /\ Invoked(ConsentKey(law))
    /\ auditor.domain = "example.com"
    /\ Jar = << [name |-> "_ga", domain |-> "example.com"] >>
    /\ FindingOf(ConsentKey(law)).status = "VIOLATION"
    /\ Len(FindingOf(ConsentKey(law)).details) = 1

\* a occurs in b as a run of consecutive characters
IsSubstring(a, b) ==
    \E i \in 0..(Len(b) - Len(a)) : SubSeq(b, i + 1, i + Len(a)) = a

\* a domain without a leading "www."
StripLeadingWww(d) ==
    IF Len(d) >= 4 /\ SubSeq(d, 1, 4) = "www." THEN SubSeq(d, 5, Len(d)) ELSE d

\* the positions of the jar whose cookie name holds neither an essential
\* keyword nor a tracker signature: they are flagged iff classified external
PlainCookies ==
    {i \in DOMAIN Jar :
        /\ ~ NameHolds(Jar[i], EssentialOf(law))
        /\ ~ NameHolds(Jar[i], SignaturesOf(law))}

\* the finding lists the cookie at position i as "External Domain"
ListedExternal(i) ==
    LET finding == FindingOf(ConsentKey(law))
    IN  /\ finding.status = "VIOLATION"
        /\ \E n \in DOMAIN finding.details :
              /\ finding.details[n].name = Jar[i].name
              /\ finding.details[n].type = "External Domain"

\* C12 as stated: a cookie is external exactly when its domain is not a
\* substring of the audited domain, neither as it stands nor without a
\* leading "www.".
C12_ExternalIffDomainNotInAudited ==
    (env.fixed /\ Invoked(ConsentKey(law))) =>
        \A i \in PlainCookies :
            ListedExternal(i) <=>
                ~ (\/ IsSubstring(Jar[i].domain, auditor.domain)
                   \/ IsSubstring(StripLeadingWww(Jar[i].domain), auditor.domain))

\* C12 amended: a cookie is external exactly when the audited domain is not a
\* substring of the cookie's lower-cased domain and the cookie's lower-cased
\* domain with every "www." taken out is not a substring of the audited domain.
C12_ExternalIffDomainsUnrelated ==
    (env.fixed /\ Invoked(ConsentKey(law))) =>
        \A i \in PlainCookies :
            ListedExternal(i) <=>
                ~ (\/ IsSubstring(auditor.domain, Lower(Jar[i].domain))
                   \/ IsSubstring(Replace(Lower(Jar[i].domain), "www.", ""),
                                  auditor.domain))

C12_Witness ==
    /\ env.fixed /\ Invoked(ConsentKey(law))
    /\ auditor.domain = "cdn.example.com"
    /\ Len(Jar) = 2 /\ Jar[1].name = "Locale" /\ Jar[2].name = "theme"
    /\ PlainCookies = {1, 2}
    /\ ~ ListedExternal(1) /\ ListedExternal(2)

-----------------------------------------------------------------------------
(* Properties of the security-header checker (SpecHeaders) *)

\* the response carries the header, however its name is capitalised
Served(name) ==
    \E h \in DOMAIN env.resp.value.headers : Lower(h) = Lower(name)

\* the positions of the required headers the response lacks
Absent == {i \in DOMAIN required_headers : ~ Served(required_headers[i][1])}

\* the n-th absent required header, in table order
NthAbsent(n) == CHOOSE i \in Absent : Cardinality({j \in Absent : j < i}) = n - 1

-----------------------------------------------------------------------------
(* Properties of the evidence locator (SpecNear) *)

\* the 0-based indices at which x occurs in t
IndicesOf(x, t) ==
    {i \in 0..(Len(t) - Len(x)) : SubSeq(t, i + 1, i + Len(x)) = x}

\* the index of the first occurrence
FirstIndex(x, t) == CHOOSE i \in IndicesOf(x, t) : \A j \in IndicesOf(x, t) : i <= j

Gap(a, b) == IF a >= b THEN a - b ELSE b - a

\* C14: the locator answers true iff needle and keyword both occur in the text
\* and the indices of their FIRST occurrences differ by at most `distance`;
\* later occurrences are not considered.
C14_NearIffFirstOccurrencesClose ==
    (pc = "located") =>
        (returned <=>
            /\ IndicesOf(env.needle, env.text) # {}
            /\ IndicesOf(env.keyword, env.text) # {}
            /\ Gap(FirstIndex(env.needle, env.text),
                   FirstIndex(env.keyword, env.text)) <= env.distance)

\* the keyword's first occurrence is too far, a later one is close: not near
C14_Witness ==
    /\ pc = "located"
    /\ env.text = "officer of the month: nobody. officer dpo@x.io, grievance desk"
    /\ env.needle = "dpo@x.io" /\ env.keyword = "officer" /\ env.distance = 8
    /\ \E i \in IndicesOf(env.keyword, env.text) :
          Gap(i, FirstIndex(env.needle, env.text)) <= env.distance
    /\ returned = FALSE

-----------------------------------------------------------------------------
(* Properties of the policy-text rules (SpecText) *)

\* the policy text as the rules read it
PolicyText == Lower(env.body)

\* the positions of a keyword table whose keyword occurs in the policy text
Hits(table) == {i \in DOMAIN table : IsSubstring(table[i], PolicyText)}

\* the n-th element of a set of positions, in increasing order
NthOf(S, n) == CHOOSE i \in S : Cardinality({j \in S : j < i}) = n - 1

\* the emails the grievance rule extracts, and those it accepts
Extracted == EmailSet(PolicyText)

Accepted ==
    {e \in Extracted :
        \E i \in Hits(grievance_keywords) :
            _is_email_near_keyword(PolicyText, e, grievance_keywords[i], DefaultDistance)}

\* C15: on non-empty policy text the grievance finding is PASS iff some
\* extracted email is near a grievance keyword that occurs in the text, and
\* then lists each accepted email exactly once; otherwise it is RISK if an
\* email was extracted and VIOLATION if none was.
C15_GrievanceVerdict ==
    (env.fixed /\ law = "DPDP" /\ Invoked("module_4")) =>
        LET finding == FindingOf("module_4")
        IN  /\ TextOf("module_4") = PolicyText
            /\ finding.status =
                  (IF Accepted # {} THEN "PASS"
                   ELSE IF Extracted # {} THEN "RISK" ELSE "VIOLATION")
            /\ (finding.status = "PASS") =>
                  /\ {finding.emails[i] : i \in DOMAIN finding.emails} = Accepted
                  /\ Len(finding.emails) = Cardinality(Accepted)

C15_Witness ==
    /\ env.fixed /\ law = "DPDP" /\ Invoked("module_4")
    /\ env.body = Sentences[1] \o " " \o Sentences[4]
    /\ Cardinality(IndicesOf("dpo@example.com", PolicyText)) = 2
    /\ FindingOf("module_4").status = "PASS"
    /\ FindingOf("module_4").emails = <<"dpo@example.com">>

\* the positions of the rights groups none of whose keywords occurs in the text
MissingRights == {i \in DOMAIN rights : Hits(rights[i][2]) = {}}

\* the elements of a sequence
Range(seq) == {seq[i] : i \in DOMAIN seq}

\* C16: on non-empty policy text the rights-bundle finding is PASS when no
\* rights group is missing, RISK when 1 or 2 are, VIOLATION when 3 or more
\* are, with a score deduction of -5 per missing group (none on PASS); found
\* and missing rights are disjoint and together the 6 rights.
C16_RightsVerdict ==
    (env.fixed /\ law = "GDPR" /\ Invoked("gdpr_3")) =>
        LET finding == FindingOf("gdpr_3")
            n == Cardinality(MissingRights)
            names == {rights[i][1] : i \in DOMAIN rights}
        IN  /\ TextOf("gdpr_3") = PolicyText
            /\ finding.status =
                  (IF n = 0 THEN "PASS" ELSE IF n <= 2 THEN "RISK" ELSE "VIOLATION")
            /\ (n > 0) =>
                  /\ finding.score_deduction = (-5) * n
                  /\ Range(finding.missing_rights) = {rights[i][1] : i \in MissingRights}
                  /\ Len(finding.missing_rights) = n
                  /\ Range(finding.found_rights) \cap Range(finding.missing_rights) = {}
                  /\ Range(finding.found_rights) \cup Range(finding.missing_rights) = names
                  /\ Len(finding.found_rights) + Len(finding.missing_rights) = 6
            /\ (n = 0) =>
                  /\ Range(finding.found_rights) = names
                  /\ Len(finding.found_rights) = 6
                  /\ "score_deduction" \notin DOMAIN finding
                  /\ "missing_rights" \notin DOMAIN finding

\* exactly three groups missing: VIOLATION with -15
C16_Witness ==
    /\ env.fixed /\ law = "GDPR" /\ Invoked("gdpr_3")
    /\ env.body = Sentences[7]
    /\ Cardinality(MissingRights) = 3
    /\ FindingOf("gdpr_3").status = "VIOLATION"
    /\ FindingOf("gdpr_3").score_deduction = -15

C18_FlagRulesVerdict ==
    /\ (env.fixed /\ law = "GDPR" /\ Invoked("gdpr_2")) =>
          LET finding == FindingOf("gdpr_2")
          IN  /\ TextOf("gdpr_2") = PolicyText
              /\ (finding.status = "PASS") <=> (Hits(dpo_keywords) # {})
              /\ (finding.status = "PASS") => "score_deduction" \notin DOMAIN finding
              /\ (finding.status # "PASS") =>
                    finding.status = "RISK" /\ finding.score_deduction = -10
    /\ (env.fixed /\ law = "GDPR" /\ Invoked("gdpr_4")) =>
          LET finding == FindingOf("gdpr_4")
          IN  /\ TextOf("gdpr_4") = PolicyText
              /\ (finding.status = "PASS") <=> (Hits(complaint_keywords) # {})
              /\ (finding.status = "PASS") => "score_deduction" \notin DOMAIN finding
              /\ (finding.status # "PASS") =>
                    finding.status = "VIOLATION" /\ finding.score_deduction = -20

C18_Witness ==
    /\ env.fixed /\ law = "GDPR" /\ Invoked("gdpr_4")
    /\ env.body = Sentences[6] \o " " \o Sentences[8]
    /\ FindingOf("gdpr_2").status = "RISK"
    /\ FindingOf("gdpr_2").score_deduction = -10
    /\ FindingOf("gdpr_4").status = "VIOLATION"
    /\ FindingOf("gdpr_4").score_deduction = -20

\* the keyword table of an any-match rule
TableOf(key) ==
    CASE key = "module_5" -> breach_keywords
      [] key = "module_6" -> children_keywords
      [] key = "module_7" -> retention_keywords

\* C19: on non-empty policy text the breach, children's-data and retention
\* findings are PASS iff a keyword of the rule's table occurs in the
\* lower-cased text, else VIOLATION; on PASS the evidence is exactly the table
\* keywords that occur in the text, in table order.
C19_AnyMatchVerdict ==
    \A key \in {"module_5", "module_6", "module_7"} :
        (env.fixed /\ law = "DPDP" /\ Invoked(key)) =>
            LET finding == FindingOf(key)
                hits    == Hits(TableOf(key))
            IN  /\ TextOf(key) = PolicyText
                /\ finding.status = (IF hits # {} THEN "PASS" ELSE "VIOLATION")
                /\ (finding.status = "PASS") =>
                      finding.keywords =
                          [n \in 1..Cardinality(hits) |-> TableOf(key)[NthOf(hits, n)]]
                /\ (finding.status = "VIOLATION") => "keywords" \notin DOMAIN finding

C19_Witness ==
    /\ env.fixed /\ law = "DPDP" /\ Invoked("module_7")
    /\ env.body = Sentences[11]
    /\ FindingOf("module_5").status = "PASS"
    /\ FindingOf("module_5").keywords = <<"breach", "72 hours", "data breach", "notify">>
    /\ FindingOf("module_6").status = "VIOLATION"
    /\ FindingOf("module_7").status = "VIOLATION"

\* C20 as stated: on the policy text "we retain logs for one year and allow
\* deletion on request" the retention finding is PASS and its matched keywords
\* include both "one year" and "deletion".
C20_RetentionScenario ==
    (/\ env.fixed /\ law = "DPDP" /\ Invoked("module_7")
     /\ env.body = "we retain logs for one year and allow deletion on request") =>
        /\ FindingOf("module_7").status = "PASS"
        /\ "one year" \in Range(FindingOf("module_7").keywords)
        /\ "deletion" \in Range(FindingOf("module_7").keywords)

-----------------------------------------------------------------------------
(* Properties of the rules evaluated in any order (SpecAnyOrder) *)

\* C9 as stated: on fixed collaborator outputs every rule, evaluated in any
\* order, leaves the finding it leaves in the declared order.
C9_AnyOrderSameFindings ==
    env.fixed =>
        \A k \in KeySet(law) :
            Invoked(k) => auditor.audit_report[k] = env.declared[k]

\* the rules that read nothing another rule leaves behind
IndependentKeys ==
    {"module_1", "module_3", "gdpr_1", "gdpr_2", "gdpr_3", "gdpr_4", "gdpr_5"}

\* C9 amended: on fixed collaborator outputs the GDPR pillars and the DPDP
\* consent and security-header rules leave, in any order, the finding they
\* leave in the declared order. (The DPDP notice rule reads the page the driver
\* holds, and DPDP modules 4-7 read the policy URL the notice rule stores.)
C9_IndependentRulesSameFindings ==
    env.fixed =>
        \A k \in KeySet(law) \cap IndependentKeys :
            Invoked(k) => auditor.audit_report[k] = env.declared[k]

C9_Witness ==
    /\ env.fixed /\ law = "GDPR" /\ todo = <<>>
    /\ Len(auditor.invoked) = 5
    /\ auditor.invoked[1][1] = "gdpr_5" /\ auditor.invoked[5][1] = "gdpr_1"
    /\ FindingOf("gdpr_5").status = "PASS"
    /\ FindingOf("gdpr_3").status = "VIOLATION"
    /\ auditor.audit_report = env.declared

-----------------------------------------------------------------------------
(* Properties of the summaries (SpecSummary) *)

\* the findings of a report, as <<rule key, position>>
FindingsIn(report) ==
    UNION {{<<k, i>> : i \in DOMAIN report[k]} : k \in DOMAIN report}

\* how many findings of a report carry the status s
Number(report, s) ==
    Cardinality({p \in FindingsIn(report) : report[p[1]][p[2]].status = s})

\* the tier the counts call for
TierFor(violations, risks) ==
    CASE violations = 0 /\ risks = 0 -> "HIGH"
      [] violations = 0 /\ risks > 0 -> "MEDIUM"
      [] violations > 0              -> "LOW"

\* C21: the tier computed from the status counts over all findings of all rule
\* keys is HIGH with no VIOLATION and no RISK finding, MEDIUM with no VIOLATION
\* and at least one RISK finding, LOW with at least one VIOLATION finding; the
\* console summary and the PDF summary give the same tier for the same report.
C21_TierFromCounts ==
    /\ (env.fixed /\ pc \in {"pdf", "page", "shown"}) =>
          /\ env.console.compliance_level =
                TierFor(Number(auditor.audit_report, "VIOLATION"),
                        Number(auditor.audit_report, "RISK"))
          /\ env.console.violations = Number(auditor.audit_report, "VIOLATION")
          /\ env.console.risks = Number(auditor.audit_report, "RISK")
    /\ (env.fixed /\ pc \in {"page", "shown"}) =>
          /\ env.pdf.compliance_level = env.console.compliance_level
          /\ env.pdf.compliance_level =
                TierFor(Number(auditor.audit_report, "VIOLATION"),
                        Number(auditor.audit_report, "RISK"))

\* a report with risks and violations is LOW in both summaries
C21_Witness ==
    /\ env.fixed /\ pc = "shown" /\ law = "DPDP"
    /\ Number(auditor.audit_report, "VIOLATION") = 1
    /\ Number(auditor.audit_report, "RISK") = 2
    /\ Number(auditor.audit_report, "PASS") = 4
    /\ env.console.compliance_level = "LOW"
    /\ env.pdf.compliance_level = "LOW"

\* C22: the displayed percentage is floor(passed * 100 / (passed + risk +
\* violation + error)), 0 when that denominator is 0; SKIP findings count
\* neither above nor below the line; the result is an integer from 0 to 100.
C22_PercentageIsFloor ==
    (env.fixed /\ pc = "shown") =>
        LET passed == Number(returned, "PASS")
            checks == Number(returned, "PASS") + Number(returned, "RISK")
                      + Number(returned, "VIOLATION") + Number(returned, "ERROR")
        IN  /\ env.score \in 0..100
            /\ (checks = 0) => env.score = 0
            /\ (checks > 0) =>
                  /\ env.score * checks <= passed * 100
                  /\ passed * 100 < (env.score + 1) * checks

\* two of six checks passed beside one skipped rule: 33 percent
C22_Witness ==
    /\ env.fixed /\ pc = "shown" /\ law = "DPDP"
    /\ Number(returned, "PASS") = 2 /\ Number(returned, "ERROR") = 1
    /\ Number(returned, "VIOLATION") = 3 /\ Number(returned, "SKIP") = 1
    /\ env.score = 33

\* C30: the tier depends only on the numbers of VIOLATION and RISK findings:
\* a report and the same report without its ERROR, SKIP or PASS findings are
\* given the same tier, by the console summary and by the PDF summary, so a
\* report that holds only ERROR and SKIP findings (no rule passed) is HIGH.
C30_TierIgnoresOtherStatuses ==
    /\ (env.fixed /\ pc \in {"pdf", "page", "shown"}) =>
          /\ Number(env.twin, "VIOLATION") = Number(auditor.audit_report, "VIOLATION")
          /\ Number(env.twin, "RISK") = Number(auditor.audit_report, "RISK")
          /\ env.console_twin.compliance_level = env.console.compliance_level
          /\ (/\ FindingsIn(auditor.audit_report) # {}
              /\ \A p \in FindingsIn(auditor.audit_report) :
                    auditor.audit_report[p[1]][p[2]].status \in {"ERROR", "SKIP"})
                => env.console.compliance_level = "HIGH"
    /\ (env.fixed /\ pc \in {"page", "shown"}) =>
          /\ env.pdf_twin.compliance_level = env.pdf.compliance_level
          /\ (/\ FindingsIn(auditor.audit_report) # {}
              /\ \A p \in FindingsIn(auditor.audit_report) :
                    auditor.audit_report[p[1]][p[2]].status \in {"ERROR", "SKIP"})
                => env.pdf.compliance_level = "HIGH"

\* a GDPR report of one ERROR and four SKIP findings, and the empty report left
\* when they are taken out, are both HIGH
C30_Witness ==
    /\ env.fixed /\ pc = "shown" /\ law = "GDPR"
    /\ Number(auditor.audit_report, "ERROR") = 1
    /\ Number(auditor.audit_report, "SKIP") = 4
    /\ FindingsIn(env.twin) = {}
    /\ env.console.compliance_level = "HIGH"
    /\ env.console_twin.compliance_level = "HIGH"
    /\ env.pdf.compliance_level = "HIGH"
    /\ env.score = 0

-----------------------------------------------------------------------------
(* Properties of a rule evaluated twice (SpecTwice) *)

\* the rule under evaluation
TwiceKey == IF todo # <<>> THEN Head(todo) ELSE auditor.invoked[1][1]

\* C23 as stated: the same (policy text, rule) pair evaluated twice, within one
\* run or in two separate runs, gives identical findings: same status, same
\* message, same evidence elements in the same order - for the grievance rule
\* too, whose evidence is the list of de-duplicated emails.
C23_SameFindingTwice ==
    (env.fixed /\ pc = "report") =>
        LET first == auditor.audit_report[TwiceKey][1]
        IN  /\ Len(auditor.audit_report[TwiceKey]) = 2 =>
                  auditor.audit_report[TwiceKey][2] = first
            /\ "separate" \in DOMAIN env =>
                  env.separate.audit_report[TwiceKey] = <<first>>

-----------------------------------------------------------------------------
(* Properties of the policy URL and of the policy fetch during a run (Spec) *)

\* the policy URL the auditor held when run_audit began
UrlAtStart ==
    IF auditor.invoked # <<>> THEN auditor.invoked[1][2] ELSE auditor.privacy_policy_url

\* C24 as stated: a policy URL injected before run_audit stays the auditor's
\* policy URL for the whole run, DPDP or GDPR, and every policy-text rule of the
\* run obtains its text from that URL.
C24_InjectedUrlKept ==
    Truthy(UrlAtStart) =>
        /\ auditor.privacy_policy_url = UrlAtStart
        /\ \A k \in TextRuleKeys : Invoked(k) => UrlAtEntry(k) = UrlAtStart
        /\ \A j \in DOMAIN auditor.fetches : auditor.fetches[j][3] = UrlAtStart

-----------------------------------------------------------------------------
(* Properties of the two consent checkers side by side (SpecPair) *)

\* what a consent finding says of the cookies: status, and the flagged cookies
\* with their labels
ConsentVerdict(finding) ==
    [status  |-> finding.status,
     flagged |-> IF "details" \in DOMAIN finding THEN finding.details ELSE <<>>]

\* the words in which the tables of the two checkers differ: GDPR alone treats
\* "language" and "preference" as essential, DPDP alone knows the tracker "mage"
TableDifferences == {"language", "preference", "mage"}

\* C25 as stated: on every cookie jar and audited domain the GDPR consent
\* check flags the same cookies with the same labels and reaches the same
\* status as the DPDP consent check.
C25_SameConsentVerdict ==
    (env.fixed /\ pc = "compared") =>
        ConsentVerdict(env.gdpr.audit_report["gdpr_1"][1])
            = ConsentVerdict(auditor.audit_report["module_1"][1])

\* C25 amended: the two checks agree - same flagged cookies, same labels, same
\* status - on every jar none of whose lower-cased cookie names holds
\* "language", "preference" or "mage".
C25_SameConsentVerdictOnSharedTables ==
    (env.fixed /\ pc = "compared") =>
        ((\A i \in DOMAIN Jar : \A w \in TableDifferences :
              ~ IsSubstring(w, Lower(Jar[i].name)))
            => ConsentVerdict(env.gdpr.audit_report["gdpr_1"][1])
                  = ConsentVerdict(auditor.audit_report["module_1"][1]))

C25_Witness ==
    /\ env.fixed /\ pc = "compared"
    /\ Len(Jar) = 2 /\ Jar[1].name = "_FBP" /\ Jar[2].name = "theme"
    /\ env.gdpr.audit_report["gdpr_1"][1].status = "VIOLATION"
    /\ auditor.audit_report["module_1"][1].status = "VIOLATION"
    /\ Len(env.gdpr.audit_report["gdpr_1"][1].details) = 2
    /\ env.gdpr.audit_report["gdpr_1"][1].details[1].type = "Known Tracker"
    /\ env.gdpr.audit_report["gdpr_1"][1].details[2].type = "External Domain"

-----------------------------------------------------------------------------
(* Properties of the tracker signatures (SpecSignatures) *)

\* C26 as stated: a cookie named exactly as a signature of the check's tracker
\* table and set on the audited domain itself is flagged "Known Tracker" by
\* that check: no signature is masked by an essential-cookie keyword.
C26_EverySignatureFlags ==
    (env.fixed /\ Invoked(ConsentKey(law))) =>
        ((/\ Len(Jar) = 1
          /\ \E i \in DOMAIN SignaturesOf(law) : Jar[1].name = SignaturesOf(law)[i]
          /\ Jar[1].domain = auditor.domain)
            => /\ FindingOf(ConsentKey(law)).status = "VIOLATION"
               /\ Len(FindingOf(ConsentKey(law)).details) = 1
               /\ FindingOf(ConsentKey(law)).details[1].name = Jar[1].name
               /\ FindingOf(ConsentKey(law)).details[1].type = "Known Tracker")

-----------------------------------------------------------------------------
(* Properties of the policy fetch (SpecFetch) *)

\* the last rule called did call _get_policy_text
TextRequested == env.calls > 0 /\ Len(auditor.seen) = env.seen_before + 1

\* the text that call returned
TextReturned == auditor.seen[Len(auditor.seen)][2]

\* the fetch attempts that call made, in order
Attempts == SubSeq(auditor.fetches, env.fetches_before + 1, Len(auditor.fetches))

\* C27: with no text cached and a policy URL known, _get_policy_text tries the
\* browser first and issues the HTTP request iff the browser attempt raised;
\* it returns and caches the lower-cased text of the first strategy that
\* succeeds (HTTP only on status 200), and returns "" with the cache left as
\* it was, holding no text, when both fail; once non-empty text is cached, a call returns that text and
\* fetches nothing.
C27_OrderedFallback ==
    (env.fixed /\ TextRequested) =>
        IF Truthy(env.cache_before)
        THEN /\ TextReturned = env.cache_before
             /\ Attempts = <<>>
             /\ auditor.privacy_policy_text = env.cache_before
        ELSE IF Truthy(env.url_before)
        THEN /\ Len(Attempts) \in {1, 2}
             /\ Attempts[1][2] = "browser"
             /\ \A i \in DOMAIN Attempts : Attempts[i][3] = env.url_before
             /\ (Len(Attempts) = 2) <=> ~ env.fetch.browser.ok
             /\ (Len(Attempts) = 2) => Attempts[2][2] = "http"
             /\ IF env.fetch.browser.ok
                THEN /\ TextReturned = Lower(env.fetch.browser.value)
                     /\ auditor.privacy_policy_text = TextReturned
                ELSE IF env.fetch.http.ok /\ env.fetch.http.value.status_code = 200
                THEN /\ TextReturned = Lower(env.fetch.http.value.text)
                     /\ auditor.privacy_policy_text = TextReturned
                ELSE /\ TextReturned = ""
                     /\ auditor.privacy_policy_text = env.cache_before
                     /\ ~ Truthy(auditor.privacy_policy_text)
        ELSE /\ TextReturned = ""
             /\ Attempts = <<>>

\* two calls found nothing (browser and HTTP both failed), the third call's
\* HTTP fallback delivered, the fourth call used the cache
C27_Witness ==
    /\ env.fixed /\ law = "DPDP" /\ env.calls = 4 /\ TextRequested
    /\ Len(auditor.fetches) = 6
    /\ auditor.fetches[5][1] = "module_6" /\ auditor.fetches[6] =
          <<"module_6", "http", ManualPolicyUrl>>
    /\ Attempts = <<>>
    /\ Truthy(env.cache_before)
    /\ TextReturned = Lower(GrievanceBody)

GdprTextPillars == {"gdpr_2", "gdpr_3", "gdpr_4", "gdpr_5"}

C29_DriverQuitOnce ==
    /\ auditor.quits \in {0, 1}
    /\ (pc = "done" /\ Launched) => auditor.quits = 1
    /\ (auditor.quits = 1) =>
          /\ pc = "done" /\ Launched /\ todo = <<>>
          /\ Len(auditor.invoked) = Len(ProfileKeys(law))
          /\ \A k \in KeySet(law) : Invoked(k) /\ Len(auditor.audit_report[k]) = 1
    /\ (pc # "done") => auditor.quits = 0
    /\ (~ Launched /\ pc # "start") =>
          /\ pc \in {"finally", "done"}
          /\ auditor.quits = 0
          /\ auditor.invoked = <<>>

\* the console could not print the report: the driver is quit all the same
C29_Witness ==
    /\ pc = "done" /\ Launched /\ law = "GDPR"
    /\ auditor.fatal = "'charmap' codec can't encode character"
    /\ auditor.quits = 1
    /\ Len(auditor.invoked) = 5

=============================================================================
